---- MODULE Spec2Model ----
(***************************************************************************)
(* Care-Cast: the per-patient monitoring scheduler.                        *)
(*                                                                         *)
(* The model covers src/queue.js (the scheduling helpers built on the      *)
(* delayed-job queue), the health-cron and WhatsApp workers of             *)
(* src/test-twilio-config.js, and the WhatsApp webhook with its poll-reply *)
(* handling in src/README.md.                                              *)
(*                                                                         *)
(* Time is in milliseconds since local midnight of day 0, as the code      *)
(* computes delays in milliseconds.  JavaScript strings that the code      *)
(* lower-cases, trims or matches are records [text, upper, pad]: text is   *)
(* the lower-case trimmed form, upper says the original has upper-case     *)
(* letters, pad says it has surrounding whitespace.                        *)
(***************************************************************************)
EXTENDS Integers, Sequences, FiniteSets, TLC

VARIABLES
  now,              \* wall clock (ms since local midnight of day 0)
  healthCronQueue,  \* jobs of the "health-cron-queue" (a set of job records)
  whatsappQueue,    \* delayed jobs of the "whatsapp-queue" not yet sent (a sequence)
  patients,         \* patient registry: phone -> "absent" | "enabled" | "disabled"
  detected,         \* the last call of detectPollResponse on its own: text and result
  outcome,          \* what the caller of the last call saw, where the job store may fail
  calls,            \* calls in progress: of scheduleHealthCheckup where calls overlap,
                    \* of the fire handlers where a job is delivered more than once
  sentAlerts,       \* alert keys held by the HeatWaveMonitor of the latest sweep
  alerts,           \* alerts the weather and heat-wave monitors have sent, in order
  isRunning,        \* WeatherMonitor.isRunning of the process-wide monitor
  sweeps            \* position of each call of runWeatherCheck in progress

monitors == <<sentAlerts, alerts, isRunning, sweeps>>

vars == <<now, healthCronQueue, whatsappQueue, patients, detected, outcome, calls,
          sentAlerts, alerts, isRunning, sweeps>>

----------------------------------------------------------------------------
(* Bounds of the model *)

\* number of clock steps explored
MaxTicks == 1
\* the webhook is served only while fewer than this many delayed messages wait
MaxBacklog == 1

Phones == {"+15550001"}

----------------------------------------------------------------------------
(* JavaScript values *)

Undefined == [undefined |-> TRUE]
Null == [null |-> TRUE]

Str(s) == [text |-> s, upper |-> FALSE, pad |-> FALSE]

Truthy(v) == v # Undefined /\ v # Null /\ v # Str("")

toLowerCase(s) == [s EXCEPT !.upper = FALSE]

trimNothing(s) == s

trim(s) == [s EXCEPT !.pad = FALSE]

MinuteMs == 60 * 1000

DayMs == 24 * 60 * MinuteMs

\* the clock starts at 08:45 of day 0 and advances a quarter of an hour at a time
StartTime == (8 * 60 + 45) * MinuteMs

TickMs == 15 * MinuteMs

----------------------------------------------------------------------------
(* The delayed-job store (BullMQ queue "health-cron-queue") *)

\* job ids are template strings; a tuple keeps their parts
RecurringMonitorJobId(phoneNumber, tag) ==
  <<"recurring-monitor", phoneNumber, tag>>

DailyJobId(phoneNumber) == <<"daily-checkup", phoneNumber>>

WeatherJobId(phoneNumber) == <<"weather-alert", phoneNumber>>

LegacyJobId(phoneNumber, tag, interval) ==
  <<"health-checkup", phoneNumber, tag, interval>>

\* healthCronQueue.getJob(id): the job stored under id, if any
getJob(q, id) == {j \in q : j.id = id}

\* job.remove(): a job that a worker is processing is locked and cannot be
\* removed; the call then throws
removeThrows(q, id) == \E j \in getJob(q, id) : j.state = "active"

removeNothing(q, id) == q

remove(q, id) == IF removeThrows(q, id) THEN q ELSE q \ getJob(q, id)

\* healthCronQueue.add(name, data, opts): a job whose id is already in the
\* queue is not added again
add(q, job) == IF getJob(q, job.id) # {} THEN q ELSE q \cup {job}

attempts == 5

backoffDelay == 1000

NewJob(name, data, id, delay, repeatEvery, t) ==
  [id |-> id, name |-> name, data |-> data, delay |-> delay,
   repeatEvery |-> repeatEvery, timestamp |-> t,
   state |-> "delayed", attemptsMade |-> 0]

dueAt(j) == j.timestamp + j.delay

\* jobs waiting for their due time: neither done, failed nor being processed
Pending(q) == {j \in q : j.state = "delayed"}

\* a job whose processor threw: retried after an exponential backoff until
\* its attempts are used up, then failed
retried(j, t) ==
  IF j.attemptsMade + 1 < attempts
    THEN [j EXCEPT !.attemptsMade = @ + 1,
                   !.delay = t + backoffDelay * 2 ^ j.attemptsMade - j.timestamp]
    ELSE [j EXCEPT !.attemptsMade = @ + 1, !.state = "failed"]

\* the pending jobs of one identity (patient, track)
JobsOf(q, phoneNumber, tag) ==
  {j \in Pending(q) : j.data.phoneNumber = phoneNumber /\ j.data.tag = tag}

----------------------------------------------------------------------------
(* src/queue.js: the scheduling helpers *)

legacyIntervals == {1, 2, 5, 10, 15, 60}

\* the job id that cancelHealthCheckups looks up for a tag
cancelJobId(phoneNumber, tag) ==
  CASE tag = "daily" -> DailyJobId(phoneNumber)
    [] tag = "symptom" -> RecurringMonitorJobId(phoneNumber, "symptom")
    [] tag = "weather-alert" -> WeatherJobId(phoneNumber)
    [] OTHER -> RecurringMonitorJobId(phoneNumber, tag)

\* the legacy loop: each removal in its own try/catch
cancelLegacy(q, phoneNumber, tag) ==
  q \ {j \in q : /\ \E i \in legacyIntervals : j.id = LegacyJobId(phoneNumber, tag, i)
                  /\ j.state # "active"}

cancelNothing(q, phoneNumber, tag) == q

\* one tag other than "all": an exception of remove() leaves the try block,
\* skipping the legacy loop, and is logged and swallowed
cancelTag(q, phoneNumber, tag) ==
  IF removeThrows(q, cancelJobId(phoneNumber, tag))
    THEN q
    ELSE cancelLegacy(remove(q, cancelJobId(phoneNumber, tag)), phoneNumber, tag)

cancelSymptomOnly(q, phoneNumber, tag) ==
  cancelTag(q, phoneNumber, IF tag = "all" THEN "symptom" ELSE tag)

cancelEveryTrack(q, phoneNumber, tag) ==
  cancelTag(cancelTag(cancelTag(q, phoneNumber, "symptom"), phoneNumber, "daily"),
            phoneNumber, "weather-alert")

cancelHealthCheckups(q, phoneNumber, tag) ==
  IF tag = "all"
    THEN cancelTag(cancelTag(cancelTag(q, phoneNumber, "symptom"),
                             phoneNumber, "daily"),
                   phoneNumber, "weather-alert")
    ELSE cancelTag(q, phoneNumber, tag)

monitoringIntervals ==
  [critical |-> 2, high |-> 5, medium |-> 15, low |-> 60, emergency |-> 1]

intervalAlwaysMedium(riskLevel) == monitoringIntervals.medium

\* monitoringIntervals[riskLevel] || monitoringIntervals.medium
intervalMinutesOf(riskLevel) ==
  IF riskLevel \in DOMAIN monitoringIntervals
    THEN monitoringIntervals[riskLevel]
    ELSE monitoringIntervals.medium

scheduleHealthCheckupTimeId(q, phoneNumber, symptom, riskLevel, tag, t) ==
  add(cancelHealthCheckups(q, phoneNumber, tag),
      NewJob("recurring-health-monitor",
             [phoneNumber |-> phoneNumber, symptom |-> symptom,
              riskLevel |-> riskLevel,
              intervalMinutes |-> intervalMinutesOf(riskLevel),
              checkNumber |-> 1, startTime |-> t, tag |-> tag],
             <<"recurring-monitor", phoneNumber, tag, t>>,
             intervalMinutesOf(riskLevel) * 60 * 1000, 0, t))

scheduleHealthCheckupLevelId(q, phoneNumber, symptom, riskLevel, tag, t) ==
  add(cancelHealthCheckups(q, phoneNumber, tag),
      NewJob("recurring-health-monitor",
             [phoneNumber |-> phoneNumber, symptom |-> symptom,
              riskLevel |-> riskLevel,
              intervalMinutes |-> intervalMinutesOf(riskLevel),
              checkNumber |-> 1, startTime |-> t, tag |-> tag],
             <<"recurring-monitor", phoneNumber, tag, riskLevel>>,
             intervalMinutesOf(riskLevel) * 60 * 1000, 0, t))

scheduleHealthCheckup(q, phoneNumber, symptom, riskLevel, tag, t) ==
  add(cancelHealthCheckups(q, phoneNumber, tag),
      NewJob("recurring-health-monitor",
             [phoneNumber |-> phoneNumber, symptom |-> symptom,
              riskLevel |-> riskLevel,
              intervalMinutes |-> intervalMinutesOf(riskLevel),
              checkNumber |-> 1, startTime |-> t, tag |-> tag],
             RecurringMonitorJobId(phoneNumber, tag),
             intervalMinutesOf(riskLevel) * 60 * 1000, 0, t))

weatherIntervals == [emergency |-> 15, high |-> 30, routine |-> 60]

\* weatherIntervals[waveStatus.urgency] || 60
weatherIntervalMinutesOf(urgency) ==
  IF urgency \in DOMAIN weatherIntervals THEN weatherIntervals[urgency] ELSE 60

scheduleWeatherAlways(q, phoneNumber, waveStatus, t) ==
  add(cancelHealthCheckups(q, phoneNumber, "weather-alert"),
      NewJob("weather-alert-checkin",
             [phoneNumber |-> phoneNumber, waveStatus |-> waveStatus,
              intervalMinutes |-> weatherIntervalMinutesOf(waveStatus.urgency),
              checkNumber |-> 1, startTime |-> t, tag |-> "weather-alert"],
             WeatherJobId(phoneNumber),
             weatherIntervalMinutesOf(waveStatus.urgency) * 60 * 1000, 0, t))

scheduleWeatherAlertCheckin(q, phoneNumber, waveStatus, t) ==
  IF waveStatus.urgency = "emergency" \/ waveStatus.urgency = "high"
    THEN add(cancelHealthCheckups(q, phoneNumber, "weather-alert"),
             NewJob("weather-alert-checkin",
                    [phoneNumber |-> phoneNumber, waveStatus |-> waveStatus,
                     intervalMinutes |-> weatherIntervalMinutesOf(waveStatus.urgency),
                     checkNumber |-> 1, startTime |-> t, tag |-> "weather-alert"],
                    WeatherJobId(phoneNumber),
                    weatherIntervalMinutesOf(waveStatus.urgency) * 60 * 1000, 0, t))
    ELSE cancelHealthCheckups(q, phoneNumber, "weather-alert")

next9AMToday(t) == (t \div DayMs) * DayMs + 9 * 60 * MinuteMs

\* today's 09:00 local; tomorrow's when t is at or past it
next9AM(t) ==
  LET today9 == (t \div DayMs) * DayMs + 9 * 60 * MinuteMs
  IN IF t >= today9 THEN today9 + DayMs ELSE today9

scheduleDailyCheckup(q, phoneNumber, t) ==
  add(cancelHealthCheckups(q, phoneNumber, "daily"),
      NewJob("daily-health-checkup",
             [phoneNumber |-> phoneNumber, checkTime |-> next9AM(t), tag |-> "daily"],
             DailyJobId(phoneNumber),
             next9AM(t) - t, 24 * 60 * 60 * 1000, t))

updateMonitoringFrequencyAllTags(q, phoneNumber, newRiskLevel, tag, t) ==
  scheduleHealthCheckup(cancelHealthCheckups(q, phoneNumber, tag),
                        phoneNumber, Str("updated"), newRiskLevel, tag, t)

updateMonitoringFrequency(q, phoneNumber, newRiskLevel, tag, t) ==
  IF tag = "symptom"
    THEN scheduleHealthCheckup(cancelHealthCheckups(q, phoneNumber, tag),
                               phoneNumber, Str("updated"), newRiskLevel, tag, t)
    ELSE cancelHealthCheckups(q, phoneNumber, tag)

----------------------------------------------------------------------------
(* src/README.md: the poll-reply interpreter of the WhatsApp webhook *)

responseMap ==
  [one |-> "much_better", two |-> "slightly_better", three |-> "same_symptoms",
   four |-> "worse_condition", five |-> "emergency_help"]

digitKey(text) ==
  CASE text = "1" -> "one" [] text = "2" -> "two" [] text = "3" -> "three"
    [] text = "4" -> "four" [] text = "5" -> "five"

buttonIds ==
  {"much_better", "slightly_better", "same_symptoms", "worse_condition",
   "emergency_help"}

\* the anchored patterns, as the finite sets of texts they accept
muchBetterPatterns ==
  {"better", "much better", "feeling better", "feeling much better"}

slightlyBetterPatterns == {"slightly better", "a little better", "a bit better"}

samePatterns == {"same", "the same", "no change", "unchanged"}

worsePatterns == {"worse", "getting worse", "feeling worse"}

emergencyPatterns == {"911", "call 911", "emergency", "need help now"}

IsOneOfAny(s, literals) == TRUE

\* the trigger phrases that occur inside a longer text
phrasesWithin(text) ==
  CASE text = "i feel worse than my headache yesterday, it really hurts" -> {"worse"}
    [] text = "i am much better now" -> {"better", "much better"}
    [] text = "same as yesterday" -> {"same"}
    [] text = "worse than before" -> {"worse"}
    [] text = "call 911 now" -> {"911", "call 911"}
    [] text = "emergency room" -> {"emergency"}
    [] text = "took 3 pills" -> {"3"}
    [] text = "not better" -> {"better"}
    [] OTHER -> {text}

IsOneOfWithin(s, literals) ==
  ~s.upper /\ ~s.pad /\ phrasesWithin(s.text) \cap literals # {}

\* whether the string is exactly one of the literals
IsOneOf(s, literals) == ~s.upper /\ ~s.pad /\ s.text \in literals

detectPollResponse(messageText) ==
  LET text == trim(toLowerCase(messageText))
  IN CASE IsOneOf(text, {"1", "2", "3", "4", "5"}) -> Str(responseMap[digitKey(text.text)])
       [] IsOneOf(text, buttonIds) -> text
       [] IsOneOf(text, muchBetterPatterns) -> Str("much_better")
       [] IsOneOf(text, slightlyBetterPatterns) -> Str("slightly_better")
       [] IsOneOf(text, samePatterns) -> Str("same_symptoms")
       [] IsOneOf(text, worsePatterns) -> Str("worse_condition")
       [] IsOneOf(text, emergencyPatterns) -> Str("emergency_help")
       [] OTHER -> Null

\* the keywords of the webhook that occur in each message text of the model
keywordsIn(text) ==
  CASE text = "i feel dizzy" -> {"dizzy"}
    [] text = "chest pain call 911" -> {"chest pain", "pain", "911"}
    [] text = "i feel worse than my headache yesterday, it really hurts" ->
         {"headache", "hurt"}
    [] text = "call 911" -> {"911"}
    [] text = "emergency_help" -> {"emergency", "help"}
    [] text = "help" -> {"help"}
    [] text = "stop daily" -> {"stop daily", "stop"}
    [] text = "start daily" -> {"start daily", "start"}
    [] text = "stop" -> {"stop"}
    [] text = "start" -> {"start"}
    [] OTHER -> {}

\* String.prototype.includes is case-sensitive; digits have no case
includes(s, keyword) ==
  /\ keyword \in keywordsIn(s.text)
  /\ (s.upper => keyword = "911")

\* a send-whatsapp job of the WhatsApp queue
Message(to, message, delay, t) ==
  [to |-> to, message |-> message, delay |-> delay, timestamp |-> t]

\* the jobs among messages that wait for a delay to pass; a job without a
\* delay goes to the WhatsApp worker at once and is not kept in the model
Delayed(messages) == SelectSeq(messages, LAMBDA m : m.delay > 0)

validResponses ==
  {"much_better", "slightly_better", "same_symptoms", "worse_condition",
   "emergency_help"}

monitoringActionReduceUnlessWorse(pollResponse, aiAnalysis) ==
  IF pollResponse = Str("worse_condition") THEN "escalate" ELSE "reduce"

\* the action chosen from the poll response and the analysis
monitoringActionOf(pollResponse, aiAnalysis) ==
  CASE aiAnalysis # Null /\ aiAnalysis.emergencyAlert -> "emergency"
    [] (aiAnalysis # Null /\ aiAnalysis.escalate)
         \/ pollResponse = Str("worse_condition") -> "escalate"
    [] pollResponse = Str("much_better") -> "reduce"
    [] pollResponse = Str("emergency_help") -> "emergency"
    [] OTHER -> "continue"

\* aiAnalysis?.escalationLevel || "urgent"
escalationLevelOf(aiAnalysis) ==
  IF aiAnalysis # Null /\ Truthy(aiAnalysis.escalationLevel)
    THEN aiAnalysis.escalationLevel.text
    ELSE "urgent"

executeKeepingChain(q, phoneNumber, monitoringAction, aiAnalysis, t) == q

\* the jobs of the health queue after the monitoring action
executeMonitoringAction(q, phoneNumber, monitoringAction, aiAnalysis, t) ==
  CASE monitoringAction = "reduce" -> cancelHealthCheckups(q, phoneNumber, "symptom")
    [] monitoringAction = "escalate" ->
         updateMonitoringFrequency(q, phoneNumber, escalationLevelOf(aiAnalysis),
                                   "symptom", t)
    [] monitoringAction = "emergency" -> cancelHealthCheckups(q, phoneNumber, "symptom")
    [] OTHER -> q

\* handlePollResponse(phoneNumber, userExists, pollResponse, originalMessage):
\* analysis is the outcome of analyzeSymptoms (Null when it throws), used only
\* when originalMessage is truthy.  The result gives the health queue, the
\* messages queued, the action executed and whether the call threw.
handlePollResponse(q, phoneNumber, userExists, pollResponse, originalMessage, analysis, t) ==
  LET aiAnalysis == IF Truthy(originalMessage) THEN analysis ELSE Null
      isEmergency ==
        \/ pollResponse = Str("emergency_help")
        \/ includes(toLowerCase(originalMessage), "911")
      finalMessage ==
        IF aiAnalysis = Null THEN "emergency-call-911" ELSE "ai-response"
      monitoringAction == monitoringActionOf(pollResponse, aiAnalysis)
  IN CASE ~IsOneOf(pollResponse, validResponses) ->
            [queue |-> q,
             messages |-> <<Message(phoneNumber, "poll-not-understood", 0, t)>>,
             action |-> "none", threw |-> FALSE]
       [] aiAnalysis = Null /\ pollResponse # Str("emergency_help")
            /\ originalMessage = Undefined ->
            \* originalMessage.toLowerCase() on undefined: TypeError
            [queue |-> q, messages |-> <<>>, action |-> "none", threw |-> TRUE]
       [] aiAnalysis = Null /\ ~isEmergency ->
            \* "MedGemma analysis required for poll responses"
            [queue |-> q, messages |-> <<>>, action |-> "none", threw |-> TRUE]
       [] OTHER ->
            [queue |-> executeMonitoringAction(q, phoneNumber, monitoringAction,
                                               aiAnalysis, t),
             messages |->
               <<Message(phoneNumber, finalMessage, 0, t)>> \o
               (IF monitoringAction = "emergency"
                  THEN <<Message(phoneNumber, "emergency-follow-up", 5 * 60 * 1000, t)>>
                  ELSE <<>>),
             action |-> monitoringAction, threw |-> FALSE]

\* the rest of the webhook, after the poll-reply check: the branch taken for
\* the message, the health queue, the messages queued and the patient's
\* monitoringEnabled afterwards ("same" when untouched)
webhookCommand(q, phoneNumber, Body, analysis, t) ==
  LET messageText == toLowerCase(Body)
      hasHealthSymptoms ==
        \E symptom \in {"dizzy", "dizziness", "headache", "nausea", "vomiting",
                        "chest pain", "difficulty breathing", "confused", "weak",
                        "faint", "tired", "hot", "fever", "sick", "pain", "hurt",
                        "sweating", "thirsty"} : includes(messageText, symptom)
      escalationLevel ==
        IF Truthy(analysis.escalationLevel) THEN analysis.escalationLevel.text
        ELSE IF analysis.emergencyAlert THEN "emergency" ELSE "medium"
      isEmergency ==
        \E keyword \in {"911", "emergency", "chest pain", "can't breathe", "fainting"} :
          includes(toLowerCase(Body), keyword)
  IN CASE hasHealthSymptoms /\ analysis # Null ->
            [branch |-> "symptoms",
             queue |-> scheduleHealthCheckup(q, phoneNumber, Body, escalationLevel,
                                             "symptom", t),
             messages |-> <<Message(phoneNumber, "ai-response", 0, t)>>,
             monitoringEnabled |-> "same"]
       [] hasHealthSymptoms ->
            [branch |-> "symptoms-unavailable",
             queue |-> scheduleHealthCheckup(q, phoneNumber, Body, "medium",
                                             "symptom", t),
             messages |->
               <<Message(phoneNumber,
                         IF isEmergency THEN "emergency-detected"
                         ELSE "service-unavailable", 0, t)>>,
             monitoringEnabled |-> "same"]
       [] includes(messageText, "help") \/ includes(messageText, "info") ->
            [branch |-> "help", queue |-> q,
             messages |-> <<Message(phoneNumber, "help", 0, t)>>,
             monitoringEnabled |-> "same"]
       [] includes(messageText, "stop daily") ->
            [branch |-> "stop daily",
             queue |-> cancelHealthCheckups(q, phoneNumber, "daily"),
             messages |-> <<Message(phoneNumber, "daily-disabled", 0, t)>>,
             monitoringEnabled |-> "same"]
       [] includes(messageText, "start daily") ->
            [branch |-> "start daily",
             queue |-> scheduleDailyCheckup(q, phoneNumber, t),
             messages |-> <<Message(phoneNumber, "daily-enabled", 0, t)>>,
             monitoringEnabled |-> "same"]
       [] includes(messageText, "stop") ->
            [branch |-> "stop",
             queue |-> cancelHealthCheckups(q, phoneNumber, "all"),
             messages |-> <<Message(phoneNumber, "alerts-paused", 0, t)>>,
             monitoringEnabled |-> "disabled"]
       [] includes(messageText, "start") ->
            [branch |-> "start",
             queue |-> scheduleDailyCheckup(q, phoneNumber, t),
             messages |-> <<Message(phoneNumber, "alerts-resumed", 0, t)>>,
             monitoringEnabled |-> "enabled"]
       [] OTHER ->
            [branch |-> "general", queue |-> q,
             messages |->
               <<Message(phoneNumber,
                         IF analysis # Null THEN "ai-response"
                         ELSE "service-unavailable", 0, t)>>,
             monitoringEnabled |-> "same"]

\* the webhook handler for a message body from phoneNumber, whose registry
\* entry is patient: the health queue, the messages queued and the registry
\* entry afterwards, with the poll response detected, the action taken and
\* whether the handler ended in its catch block
whatsappWebhook(q, patient, phoneNumber, Body, analysis, t) ==
  LET isNewUser == patient = "absent"
      onboarding ==
        IF isNewUser THEN <<Message(phoneNumber, "onboarding", 0, t)>> ELSE <<>>
      created == IF isNewUser THEN "enabled" ELSE patient
      messageText == toLowerCase(Body)
      pollResponse == detectPollResponse(messageText)
      \* handlePollResponse(phoneNumber, pollResponse, messageText): the
      \* arguments bind to (phoneNumber, userExists, pollResponse) and
      \* originalMessage is undefined
      poll == handlePollResponse(q, phoneNumber, pollResponse, messageText,
                                 Undefined, analysis, t)
      command == webhookCommand(q, phoneNumber, Body, analysis, t)
  IN IF Truthy(pollResponse)
       THEN [queue |-> poll.queue, messages |-> onboarding \o poll.messages,
             patient |-> created, pollResponse |-> pollResponse,
             action |-> poll.action, threw |-> poll.threw]
       ELSE [queue |-> command.queue, messages |-> onboarding \o command.messages,
             patient |-> IF command.monitoringEnabled = "same" THEN created
                         ELSE command.monitoringEnabled,
             pollResponse |-> pollResponse,
             action |-> command.branch, threw |-> FALSE]

----------------------------------------------------------------------------
(* Inputs of the model *)

RiskLevels == {"emergency", "critical", "high", "medium", "low", "urgent"}

\* the levels the model starts chains with, and escalates to
StartLevels == {"high", "low"}

EscalateLevels == {"critical", "urgent"}

Urgencies == {"emergency", "high", "routine"}

Tags == {"symptom", "daily", "weather-alert"}

\* inbound message bodies: poll digits, button ids, short phrasings (some
\* in upper case or padded), symptom reports and commands
Bodies ==
  {Str(text) : text \in {"1", "3", "4", "5", "much_better", "slightly_better",
                         "same_symptoms", "worse_condition", "emergency_help",
                         "much better", "a bit better", "same", "worse",
                         "call 911", "i feel dizzy", "chest pain call 911",
                         "help", "stop daily", "start daily", "stop", "start",
                         "hello"}}
  \cup {[text |-> "worse", upper |-> TRUE, pad |-> TRUE],
        [text |-> "emergency_help", upper |-> TRUE, pad |-> FALSE],
        [text |-> "much_better", upper |-> FALSE, pad |-> TRUE]}

\* outcomes of analyzeSymptoms: Null when it throws
AllAnalyses ==
  {Null} \cup
  [escalationLevel : {Undefined, Str("urgent"), Str("emergency")},
   emergencyAlert : BOOLEAN, escalate : BOOLEAN]

Analyses ==
  {Null,
   [escalationLevel |-> Undefined, emergencyAlert |-> FALSE, escalate |-> FALSE],
   [escalationLevel |-> Str("emergency"), emergencyAlert |-> TRUE, escalate |-> TRUE]}

\* the inputs the webhook steps of the model draw from: one body and one
\* outcome for each way the webhook can change the state (a poll reply other
\* than the text emergency_help changes what "much better" changes; an
\* analysis without a level schedules what a failed one schedules)
StepBodies ==
  {Str(text) : text \in {"emergency_help", "much better", "i feel dizzy",
                         "chest pain call 911", "stop daily", "start daily",
                         "stop", "start"}}

StepAnalyses ==
  {Null,
   [escalationLevel |-> Str("emergency"), emergencyAlert |-> TRUE, escalate |-> TRUE]}

----------------------------------------------------------------------------
(* The state machine *)

\* the callers of runWeatherCheck: the health-cron worker and the manual trigger
Sweepers == {"worker", "trigger"}

InitMonitors ==
  /\ sentAlerts = {}
  /\ alerts = <<>>
  /\ isRunning = FALSE
  /\ sweeps = [s \in Sweepers |-> [pc |-> "idle", result |-> "none"]]

Init ==
  /\ now = StartTime
  /\ healthCronQueue = {}
  /\ whatsappQueue = <<>>
  /\ patients = [p \in Phones |-> "absent"]
  /\ detected = Null
  /\ outcome = Null
  /\ calls = <<>>
  /\ InitMonitors

\* start of the Symptom track (POST /schedule-checkup, or any caller)
ScheduleHealthCheckup(phoneNumber, riskLevel) ==
  /\ healthCronQueue' =
       scheduleHealthCheckup(healthCronQueue, phoneNumber, Str("i feel dizzy"), riskLevel,
                             "symptom", now)
  /\ UNCHANGED <<now, whatsappQueue, patients, detected, outcome, calls, monitors>>

\* start of the Daily track
ScheduleDailyCheckup(phoneNumber) ==
  /\ healthCronQueue' = scheduleDailyCheckup(healthCronQueue, phoneNumber, now)
  /\ UNCHANGED <<now, whatsappQueue, patients, detected, outcome, calls, monitors>>

\* start of the WeatherAlert track (scheduleSeniorHeatMonitoring)
ScheduleWeatherAlertCheckin(phoneNumber, urgency) ==
  /\ healthCronQueue' =
       scheduleWeatherAlertCheckin(
         healthCronQueue, phoneNumber,
         [urgency |-> urgency, type |-> "senior_heat_monitoring"], now)
  /\ UNCHANGED <<now, whatsappQueue, patients, detected, outcome, calls, monitors>>

\* cancel (POST /cancel-checkups, or any caller)
CancelHealthCheckups(phoneNumber, tag) ==
  /\ healthCronQueue' = cancelHealthCheckups(healthCronQueue, phoneNumber, tag)
  /\ UNCHANGED <<now, whatsappQueue, patients, detected, outcome, calls, monitors>>

\* escalate / deescalate
UpdateMonitoringFrequency(phoneNumber, newRiskLevel, tag) ==
  /\ healthCronQueue' =
       updateMonitoringFrequency(healthCronQueue, phoneNumber, newRiskLevel, tag, now)
  /\ UNCHANGED <<now, whatsappQueue, patients, detected, outcome, calls, monitors>>

\* POST /twilio/whatsapp-webhook with a message body
WhatsappWebhook(From, Body, analysis) ==
  LET result == whatsappWebhook(healthCronQueue, patients[From], From, Body,
                                analysis, now)
  IN /\ Len(whatsappQueue) < MaxBacklog
     /\ healthCronQueue' = result.queue
     /\ whatsappQueue' = whatsappQueue \o Delayed(result.messages)
     /\ patients' = [patients EXCEPT ![From] = result.patient]
     /\ UNCHANGED <<now, detected, outcome, calls, monitors>>

\* the jobs that are due
Due(q, t) == {j \in Pending(q) : t >= dueAt(j)}

\* health-cron worker, "recurring-health-monitor": send the check-in, then
\* schedule the next one while this job is still active
ProcessRecurringHealthMonitor(job, dispatchOk) ==
  LET active == [job EXCEPT !.state = "active"]
      rescheduled ==
        scheduleHealthCheckup((healthCronQueue \ {job}) \cup {active},
                              job.data.phoneNumber, job.data.symptom,
                              job.data.riskLevel, job.data.tag, now)
  IN /\ job \in Due(healthCronQueue, now)
     /\ job.name = "recurring-health-monitor"
     /\ healthCronQueue' =
          IF dispatchOk
            THEN {IF j = active THEN [j EXCEPT !.state = "completed"] ELSE j :
                    j \in rescheduled}
            ELSE (healthCronQueue \ {job}) \cup {retried(job, now)}
     /\ UNCHANGED <<now, whatsappQueue, patients, detected, outcome, calls, monitors>>

\* health-cron worker, "weather-alert-checkin": the processor refers to
\* whatsappQueue, which its module never binds, and throws
ProcessWeatherAlertCheckin(job) ==
  /\ job \in Due(healthCronQueue, now)
  /\ job.name = "weather-alert-checkin"
  /\ healthCronQueue' = (healthCronQueue \ {job}) \cup {retried(job, now)}
  /\ UNCHANGED <<now, whatsappQueue, patients, detected, outcome, calls, monitors>>

ProcessDailyAndRestart(job, dispatchOk) ==
  /\ job \in Due(healthCronQueue, now)
  /\ job.name = "daily-health-checkup"
  /\ healthCronQueue' =
       scheduleHealthCheckup(
         (healthCronQueue \ {job}) \cup
           {[job EXCEPT !.delay = job.data.checkTime + job.repeatEvery - job.timestamp,
                        !.data.checkTime = @ + job.repeatEvery]},
         job.data.phoneNumber, Str("daily"), "medium", "symptom", now)
  /\ UNCHANGED <<now, whatsappQueue, patients, detected, outcome, calls, monitors>>

\* health-cron worker, "daily-health-checkup": send the daily message; the
\* queue repeats the job every 24 hours
ProcessDailyRoutineCheckup(job, dispatchOk) ==
  /\ job \in Due(healthCronQueue, now)
  /\ job.name = "daily-health-checkup"
  /\ healthCronQueue' =
       (healthCronQueue \ {job}) \cup
       {IF dispatchOk
          THEN [job EXCEPT !.delay = job.data.checkTime + job.repeatEvery - job.timestamp,
                           !.data.checkTime = @ + job.repeatEvery,
                           !.attemptsMade = 0]
          ELSE retried(job, now)}
  /\ UNCHANGED <<now, whatsappQueue, patients, detected, outcome, calls, monitors>>

\* WhatsApp worker, "send-whatsapp": send the first message that is due
WhatsappWorker(i) ==
  /\ i \in 1..Len(whatsappQueue)
  /\ now >= whatsappQueue[i].timestamp + whatsappQueue[i].delay
  /\ \A k \in 1..(i - 1) : now < whatsappQueue[k].timestamp + whatsappQueue[k].delay
  /\ whatsappQueue' =
       SubSeq(whatsappQueue, 1, i - 1) \o SubSeq(whatsappQueue, i + 1, Len(whatsappQueue))
  /\ UNCHANGED <<now, healthCronQueue, patients, detected, outcome, calls, monitors>>

\* time passes
AdvanceTime ==
  /\ now < StartTime + MaxTicks * TickMs
  /\ now' = now + TickMs
  /\ UNCHANGED <<healthCronQueue, whatsappQueue, patients, detected, outcome, calls, monitors>>

Next ==
  \/ \E p \in Phones, level \in StartLevels : ScheduleHealthCheckup(p, level)
  \/ \E p \in Phones : ScheduleDailyCheckup(p)
  \/ \E p \in Phones, urgency \in Urgencies : ScheduleWeatherAlertCheckin(p, urgency)
  \/ \E p \in Phones, tag \in Tags \cup {"all"} : CancelHealthCheckups(p, tag)
  \/ \E p \in Phones, level \in EscalateLevels, tag \in Tags :
       UpdateMonitoringFrequency(p, level, tag)
  \/ \E p \in Phones, body \in StepBodies, analysis \in StepAnalyses :
       WhatsappWebhook(p, body, analysis)
  \/ \E job \in healthCronQueue : ProcessRecurringHealthMonitor(job, TRUE)
  \/ \E job \in healthCronQueue : ProcessWeatherAlertCheckin(job)
  \/ \E job \in healthCronQueue : ProcessDailyRoutineCheckup(job, TRUE)
  \/ \E i \in 1..Len(whatsappQueue) : WhatsappWorker(i)
  \/ AdvanceTime

Spec == Init /\ [][Next]_vars

----------------------------------------------------------------------------
(* Properties *)

\* the interval table of the Symptom track, in minutes; a level outside the
\* table has the default (Medium) interval
SymptomInterval(level) ==
  CASE level = "emergency" -> 1
    [] level = "critical" -> 2
    [] level = "high" -> 5
    [] level = "medium" -> 15
    [] level = "low" -> 60
    [] OTHER -> 15

\* the interval table of the WeatherAlert track, in minutes
WeatherInterval(urgency) == IF urgency = "emergency" THEN 15 ELSE 30

\* q holds exactly one pending Symptom job of the patient: started at time t
\* with the level, check number 1 and the level's interval as its delay
OneSymptomJob(q, phoneNumber, level, t) ==
  \E j \in JobsOf(q, phoneNumber, "symptom") :
    /\ JobsOf(q, phoneNumber, "symptom") = {j}
    /\ j.data.checkNumber = 1
    /\ j.data.riskLevel = level
    /\ j.data.intervalMinutes = SymptomInterval(level)
    /\ j.delay = SymptomInterval(level) * 60 * 1000
    /\ j.timestamp = t
    /\ j.data.startTime = t

\* the pending Symptom jobs that have not fired yet and are not due
BeforeFirstFire(q, phoneNumber, t) ==
  {j \in JobsOf(q, phoneNumber, "symptom") : j.data.checkNumber = 1 /\ t < dueAt(j)}

\* the messages of the emergency action: one sent at once, then exactly one
\* follow-up delayed five minutes
EmergencyMessages(messages, phoneNumber, t) ==
  /\ Len(messages) = 2
  /\ messages[1].to = phoneNumber
  /\ messages[1].delay = 0
  /\ messages[1].message \in {"emergency-call-911", "ai-response"}
  /\ Delayed(messages) =
       <<Message(phoneNumber, "emergency-follow-up", 5 * 60 * 1000, t)>>

\* C1: for every patient and every track, after any sequence of serialized
\* start, cancel, escalate/deescalate, poll-reply and fire operations, at most
\* one check-in job is pending for (patient, track).
C1_AtMostOnePendingJob ==
  \A p \in Phones, tag \in Tags :
    Cardinality(JobsOf(healthCronQueue, p, tag)) <= 1

\* every track of a patient has its job pending, the Symptom one put there by
\* an escalation after the clock has advanced
C1_Witness ==
  \E p \in Phones :
    /\ now > StartTime
    /\ \A tag \in Tags : Cardinality(JobsOf(healthCronQueue, p, tag)) = 1
    /\ \E j \in JobsOf(healthCronQueue, p, "symptom") :
         j.data.symptom = Str("updated") /\ j.timestamp = now

\* C2: a start in any state leaves exactly one pending job for (patient,
\* track), with check number 1, the given level and the level's interval as
\* its delay; whatever was pending for that identity before is gone.
C2_StartLeavesOneJob ==
  \A p \in Phones :
    /\ \A level \in RiskLevels :
         OneSymptomJob(scheduleHealthCheckup(healthCronQueue, p, Str("i feel dizzy"),
                                             level, "symptom", now),
                       p, level, now)
    /\ \A urgency \in {"emergency", "high"} :
         LET q == scheduleWeatherAlertCheckin(
                    healthCronQueue, p,
                    [urgency |-> urgency, type |-> "senior_heat_monitoring"], now)
         IN \E j \in JobsOf(q, p, "weather-alert") :
              /\ JobsOf(q, p, "weather-alert") = {j}
              /\ j.data.checkNumber = 1
              /\ j.data.waveStatus.urgency = urgency
              /\ j.delay = WeatherInterval(urgency) * 60 * 1000
              /\ j.timestamp = now
    /\ LET q == scheduleDailyCheckup(healthCronQueue, p, now)
       IN \E j \in JobsOf(q, p, "daily") :
            JobsOf(q, p, "daily") = {j} /\ j.timestamp = now

\* a Symptom job and a WeatherAlert job started earlier are pending, the
\* WeatherAlert one after a failed attempt, and an older Symptom job is done
C2_Witness ==
  \E p \in Phones :
    /\ \E j \in JobsOf(healthCronQueue, p, "symptom") :
         j.timestamp < now /\ j.data.riskLevel = "low"
    /\ \E j \in JobsOf(healthCronQueue, p, "weather-alert") :
         j.timestamp < now /\ j.attemptsMade > 0
    /\ JobsOf(healthCronQueue, p, "daily") # {}

\* C3: cancel is idempotent: twice in a row is the same as once; with no job
\* pending for the identity it changes no pending job and raises no error;
\* after it there are zero pending jobs for (patient, track).
C3_CancelIdempotent ==
  \A p \in Phones, tag \in Tags :
    LET once == cancelHealthCheckups(healthCronQueue, p, tag)
    IN /\ cancelHealthCheckups(once, p, tag) = once
       /\ ~removeThrows(healthCronQueue, cancelJobId(p, tag))
       /\ JobsOf(healthCronQueue, p, tag) = {} =>
            Pending(once) = Pending(healthCronQueue)
       /\ JobsOf(once, p, tag) = {}
       /\ \A other \in Tags \ {tag} :
            JobsOf(once, p, other) = JobsOf(healthCronQueue, p, other)

\* one track has a pending job to cancel while another has none
C3_Witness ==
  \E p \in Phones :
    /\ JobsOf(healthCronQueue, p, "symptom") # {}
    /\ JobsOf(healthCronQueue, p, "weather-alert") # {}
    /\ JobsOf(healthCronQueue, p, "daily") = {}
    /\ JobsOf(cancelHealthCheckups(healthCronQueue, p, "symptom"), p, "symptom") = {}

\* C4 as stated: on every track, escalate/deescalate leaves exactly one pending
\* job for (patient, track), carrying the new level and its interval from the
\* time of the call.
C4_RestartsEveryTrack ==
  \A p \in Phones, tag \in Tags, level \in RiskLevels :
    LET q == updateMonitoringFrequency(healthCronQueue, p, level, tag, now)
    IN \E j \in JobsOf(q, p, tag) :
         /\ JobsOf(q, p, tag) = {j}
         /\ j.data.riskLevel = level
         /\ j.delay = SymptomInterval(level) * 60 * 1000
         /\ j.timestamp = now

\* C4: on the Symptom track escalate/deescalate behaves as cancel followed by
\* start with the new level: exactly one Symptom job is pending, with the new
\* level and its interval from the time of the call.  On any other track the
\* call only cancels: zero jobs are pending for (patient, track) afterwards.
\* The jobs of the other tracks are left alone.
C4_RestartsSymptomOnly ==
  \A p \in Phones, tag \in Tags, level \in RiskLevels :
    LET q == updateMonitoringFrequency(healthCronQueue, p, level, tag, now)
    IN /\ tag = "symptom" => OneSymptomJob(q, p, level, now)
       /\ tag # "symptom" => JobsOf(q, p, tag) = {}
       /\ \A other \in Tags \ {tag} :
            JobsOf(q, p, other) = JobsOf(healthCronQueue, p, other)

\* a Symptom job and a Daily job are pending when the escalation is called
C4_Witness ==
  \E p \in Phones :
    /\ \E j \in JobsOf(healthCronQueue, p, "symptom") :
         j.data.riskLevel = "high" /\ j.timestamp < now
    /\ JobsOf(healthCronQueue, p, "daily") # {}
    /\ JobsOf(updateMonitoringFrequency(healthCronQueue, p, "critical", "daily", now),
              p, "daily") = {}

\* C5: escalate(p, "symptom", "urgent") immediately followed by
\* cancel(p, "symptom") leaves zero pending jobs for (p, symptom), whatever the
\* state before the escalate.
C5_EscalateThenCancel ==
  \A p \in Phones :
    JobsOf(cancelHealthCheckups(
             updateMonitoringFrequency(healthCronQueue, p, "urgent", "symptom", now),
             p, "symptom"),
           p, "symptom") = {}

\* the escalate finds a Symptom job pending and leaves its own job
C5_Witness ==
  \E p \in Phones :
    /\ \E j \in JobsOf(healthCronQueue, p, "symptom") : j.data.riskLevel = "medium"
    /\ \E j \in JobsOf(updateMonitoringFrequency(healthCronQueue, p, "urgent",
                                                 "symptom", now), p, "symptom") :
         j.data.riskLevel = "urgent"

\* C6: with a Symptom chain pending that has not fired yet, handling the
\* inbound reply "much better" cancels the chain: zero Symptom jobs remain, and
\* the Daily job of the patient is unchanged.
C6_MuchBetterCancelsChain ==
  \A p \in Phones, analysis \in Analyses :
    BeforeFirstFire(healthCronQueue, p, now) # {} =>
      LET r == whatsappWebhook(healthCronQueue, patients[p], p, Str("much better"),
                               analysis, now)
      IN /\ JobsOf(r.queue, p, "symptom") = {}
         /\ JobsOf(r.queue, p, "daily") = JobsOf(healthCronQueue, p, "daily")

\* C7: with a Symptom job at level High pending that has not fired yet,
\* handling the inbound reply "worse" replaces it by exactly one job of a
\* strictly shorter interval; a worse reply never yields a longer interval.
C7_WorseShortensInterval ==
  \A p \in Phones, analysis \in Analyses :
    \A j \in BeforeFirstFire(healthCronQueue, p, now) :
      LET r == whatsappWebhook(healthCronQueue, patients[p], p, Str("worse"),
                               analysis, now)
      IN /\ \A k \in JobsOf(r.queue, p, "symptom") :
              k.data.intervalMinutes <= j.data.intervalMinutes
         /\ j.data.riskLevel = "high" =>
              \E k \in JobsOf(r.queue, p, "symptom") :
                /\ JobsOf(r.queue, p, "symptom") = {k}
                /\ k # j
                /\ k.data.intervalMinutes < j.data.intervalMinutes

\* what handlePollResponse is called with in the properties
PollTokens == {Str(token) : token \in validResponses}

OriginalMessages == {Undefined, Str("call 911")}

\* C8: the emergency action cancels the Symptom track, sends an emergency
\* message at once and schedules exactly one follow-up delayed five minutes.
\* The follow-up is a one-shot: sending it enqueues nothing.  It is separate
\* from the chain: it is no job of the health queue and cancelling a track
\* does not remove it.
C8_EmergencyAction ==
  /\ [](\A p \in Phones, pollResponse \in PollTokens,
           originalMessage \in OriginalMessages, analysis \in Analyses :
          LET r == handlePollResponse(healthCronQueue, p, FALSE, pollResponse,
                                      originalMessage, analysis, now)
          IN r.action = "emergency" =>
               /\ JobsOf(r.queue, p, "symptom") = {}
               /\ EmergencyMessages(r.messages, p, now)
               /\ (originalMessage = Undefined =>
                     r.messages[1].message = "emergency-call-911"))
  /\ [](\A p \in Phones, analysis \in Analyses :
          LET r == whatsappWebhook(healthCronQueue, patients[p], p,
                                   Str("emergency_help"), analysis, now)
          IN /\ r.action = "emergency"
             /\ JobsOf(r.queue, p, "symptom") = {}
             /\ \E i \in 1..Len(r.messages) :
                  r.messages[i] = Message(p, "emergency-call-911", 0, now)
             /\ Delayed(r.messages) =
                  <<Message(p, "emergency-follow-up", 5 * 60 * 1000, now)>>)
  /\ [][IF Len(whatsappQueue') < Len(whatsappQueue)
          THEN \* the step that sends a follow-up enqueues nothing
               /\ healthCronQueue' = healthCronQueue
               /\ Len(whatsappQueue') = Len(whatsappQueue) - 1
          ELSE \* no other step, a cancel included, removes a waiting follow-up
               SubSeq(whatsappQueue', 1, Len(whatsappQueue)) = whatsappQueue]_vars

\* the follow-up of an emergency waits in the WhatsApp queue, the Symptom
\* chain is gone and the Daily job is still pending
C8_Witness ==
  \E p \in Phones :
    /\ whatsappQueue = <<Message(p, "emergency-follow-up", 5 * 60 * 1000, now)>>
    /\ now > StartTime
    /\ JobsOf(healthCronQueue, p, "symptom") = {}
    /\ JobsOf(healthCronQueue, p, "daily") # {}

\* C9: every inbound reply classified emergency_help, and every inbound text
\* containing "911", results in the emergency action (Symptom cancelled,
\* emergency message sent, one five-minute follow-up scheduled), whatever the
\* risk classifier returns and whether or not it fails.
C9_EmergencyAlways ==
  \A p \in Phones, body \in Bodies, analysis \in Analyses :
    (\/ detectPollResponse(toLowerCase(body)) = Str("emergency_help")
     \/ includes(body, "911")) =>
      LET r == whatsappWebhook(healthCronQueue, patients[p], p, body, analysis, now)
      IN /\ JobsOf(r.queue, p, "symptom") = {}
         /\ \E i \in 1..Len(r.messages) :
              r.messages[i].delay = 0
              /\ r.messages[i].message \in {"emergency-call-911", "emergency-detected"}
         /\ Delayed(r.messages) =
              <<Message(p, "emergency-follow-up", 5 * 60 * 1000, now)>>

\* the replies that classify as slightly_better or same_symptoms
SteadyBodies ==
  {body \in Bodies :
     detectPollResponse(toLowerCase(body)) \in
       {Str("slightly_better"), Str("same_symptoms")}}

InvalidResponses ==
  {Str("hello"), Str("worse"), Str("5"), Str("call 911"), Str("i feel dizzy"),
   [text |-> "much_better", upper |-> FALSE, pad |-> TRUE]}

\* the message bodies the interpreter leaves unclassified
UnclassifiedBodies ==
  {body \in Bodies : detectPollResponse(toLowerCase(body)) = Null}

\* C11: an inbound text that the interpreter leaves unclassified triggers no
\* reduce, escalate or emergency action of the poll-reply path: the poll-reply
\* handler is not entered for it, and a response that is none of the five
\* makes the handler return after its not-understood message, with every job
\* of the health queue as it was.
C11_UnclassifiedNoAction ==
  /\ \A p \in Phones, pollResponse \in InvalidResponses,
        originalMessage \in OriginalMessages, analysis \in Analyses :
       LET r == handlePollResponse(healthCronQueue, p, FALSE, pollResponse,
                                   originalMessage, analysis, now)
       IN /\ r.action = "none"
          /\ ~r.threw
          /\ r.queue = healthCronQueue
          /\ r.messages = <<Message(p, "poll-not-understood", 0, now)>>
  /\ \A p \in Phones, body \in UnclassifiedBodies, analysis \in Analyses :
       LET r == whatsappWebhook(healthCronQueue, patients[p], p, body, analysis, now)
       IN /\ r.pollResponse = Null
          /\ r.action \notin {"none", "reduce", "escalate", "emergency"}
          /\ Delayed(r.messages) = <<>>

\* a Symptom job and a Daily job are pending when such a text arrives
C11_Witness ==
  \E p \in Phones :
    /\ JobsOf(healthCronQueue, p, "symptom") # {}
    /\ JobsOf(healthCronQueue, p, "daily") # {}
    /\ JobsOf(healthCronQueue, p, "weather-alert") = {}
    /\ Cardinality(UnclassifiedBodies) >= 6

----------------------------------------------------------------------------
(* The response interpreter on its own *)

Digits == {"1", "2", "3", "4", "5"}

\* texts with a trigger word and other words, outside the curated phrasings
LongTexts ==
  {"i feel worse than my headache yesterday, it really hurts",
   "i am much better now", "same as yesterday", "worse than before",
   "call 911 now", "emergency room", "took 3 pills", "not better"}

\* the texts given to the interpreter: each in lower case or with upper-case
\* letters, bare or surrounded by whitespace
MessageTexts ==
  {m \in [text : Digits \cup buttonIds \cup muchBetterPatterns
                   \cup slightlyBetterPatterns \cup samePatterns \cup worsePatterns
                   \cup emergencyPatterns \cup LongTexts \cup {"hello", "6", "0"},
          upper : BOOLEAN, pad : BOOLEAN] :
     m.upper => m.text \notin Digits \cup {"911", "6", "0"}}

\* detectPollResponse called with a message text
DetectPollResponse(messageText) ==
  /\ detected' = [messageText |-> messageText,
                  result |-> detectPollResponse(messageText)]
  /\ UNCHANGED <<now, healthCronQueue, whatsappQueue, patients, outcome, calls, monitors>>

NextInterpreter == \E messageText \in MessageTexts : DetectPollResponse(messageText)

SpecInterpreter == Init /\ [][NextInterpreter]_vars

\* C12: the interpreter ignores case and surrounding whitespace; a bare digit
\* 1..5 maps positionally to much_better, slightly_better, same_symptoms,
\* worse_condition, emergency_help; each of the five tokens maps to itself;
\* "3" gives same_symptoms and "  WORSE  " gives worse_condition.
C12_DigitsTokensCaseWhitespace ==
  detected # Null =>
    LET m == detected.messageText
        r == detected.result
    IN /\ r = detectPollResponse(Str(m.text))
       /\ m.text = "1" => r = Str("much_better")
       /\ m.text = "2" => r = Str("slightly_better")
       /\ m.text = "3" => r = Str("same_symptoms")
       /\ m.text = "4" => r = Str("worse_condition")
       /\ m.text = "5" => r = Str("emergency_help")
       /\ m.text \in {"much_better", "slightly_better", "same_symptoms",
                      "worse_condition", "emergency_help"} => r = Str(m.text)
       /\ m.text = "worse" => r = Str("worse_condition")
       /\ m.text \in {"6", "0", "hello"} => r = Null

\* the interpreter was given "  WORSE  "
C12_Witness ==
  /\ detected # Null
  /\ detected.messageText = [text |-> "worse", upper |-> TRUE, pad |-> TRUE]
  /\ detected.result = Str("worse_condition")

\* C13: matching is whole-message, not substring-based: a text that holds a
\* trigger word (better, same, worse, emergency, 911, a digit) together with
\* other words, outside the curated short phrasings, is unclassified.
C13_WholeMessageMatch ==
  (detected # Null /\ detected.messageText.text \in LongTexts) =>
    detected.result = Null

\* the interpreter was given the long sentence with "worse" in it
C13_Witness ==
  /\ detected # Null
  /\ detected.messageText =
       Str("i feel worse than my headache yesterday, it really hurts")
  /\ detected.result = Null

----------------------------------------------------------------------------
(* Starts at any time of day *)

\* the levels a caller passes: the keys of the table, the escalation levels
\* of the analysis, and others the table does not know
AllLevels == RiskLevels \cup {"none", "monitor", "moderate", ""}

\* times of day 0 and day 1: every half hour, and the instants around 09:00
StartTimes ==
  {d * DayMs + h * 30 * MinuteMs : d \in 0..1, h \in 0..47}
  \cup {d * DayMs + 9 * 60 * MinuteMs + e : d \in 0..1, e \in {-1, 1, 5 * MinuteMs}}
  \cup {d * DayMs + DayMs - 1 : d \in 0..1}

InitAnyTime ==
  /\ now \in StartTimes
  /\ healthCronQueue = {}
  /\ whatsappQueue = <<>>
  /\ patients = [p \in Phones |-> "absent"]
  /\ detected = Null
  /\ outcome = Null
  /\ calls = <<>>
  /\ InitMonitors

\* scheduleHealthCheckup called without a level: riskLevel = "medium"
ScheduleHealthCheckupDefault(phoneNumber) ==
  /\ healthCronQueue' =
       scheduleHealthCheckup(healthCronQueue, phoneNumber, Str("i feel dizzy"),
                             "medium", "symptom", now)
  /\ UNCHANGED <<now, whatsappQueue, patients, detected, outcome, calls, monitors>>

NextStart ==
  \/ \E p \in Phones, level \in AllLevels : ScheduleHealthCheckup(p, level)
  \/ \E p \in Phones : ScheduleHealthCheckupDefault(p)
  \/ \E p \in Phones : ScheduleDailyCheckup(p)

SpecStart == InitAnyTime /\ [][NextStart]_vars

\* C14: the Symptom interval policy is total and table-driven: Emergency 1
\* minute, Critical 2, High 5, Medium 15, Low 60; a level outside the table,
\* or none at all, gets the default interval; and the interval strictly
\* decreases as severity rises from Low to Emergency.
C14_IntervalTable ==
  /\ \A p \in Phones : \A j \in JobsOf(healthCronQueue, p, "symptom") :
       /\ j.data.intervalMinutes = SymptomInterval(j.data.riskLevel)
       /\ j.delay = SymptomInterval(j.data.riskLevel) * 60 * 1000
       /\ j.delay > 0
  /\ \A level \in AllLevels : intervalMinutesOf(level) = SymptomInterval(level)
  /\ intervalMinutesOf("low") > intervalMinutesOf("medium")
  /\ intervalMinutesOf("medium") > intervalMinutesOf("high")
  /\ intervalMinutesOf("high") > intervalMinutesOf("critical")
  /\ intervalMinutesOf("critical") > intervalMinutesOf("emergency")

\* a chain started at a level the table does not know
C14_Witness ==
  \E p \in Phones : \E j \in JobsOf(healthCronQueue, p, "symptom") :
    j.data.riskLevel = "monitor" /\ j.data.intervalMinutes = 15

C15_WeatherOnlyEmergencyHigh ==
  \A p \in Phones :
    /\ \A urgency \in {"routine", "medium", "low", "none"} :
         JobsOf(scheduleWeatherAlertCheckin(
                  healthCronQueue, p,
                  [urgency |-> urgency, type |-> "senior_heat_monitoring"], now),
                p, "weather-alert") = {}
    /\ \A urgency \in {"emergency", "high"} :
         \E j \in JobsOf(scheduleWeatherAlertCheckin(
                           healthCronQueue, p,
                           [urgency |-> urgency, type |-> "senior_heat_monitoring"],
                           now),
                         p, "weather-alert") :
           /\ j.data.intervalMinutes = WeatherInterval(urgency)
           /\ j.delay = WeatherInterval(urgency) * 60 * 1000
    /\ \A j \in JobsOf(healthCronQueue, p, "weather-alert") :
         j.data.waveStatus.urgency \in {"emergency", "high"}

\* a WeatherAlert job is pending when a routine status arrives, and the call
\* leaves none
C15_Witness ==
  \E p \in Phones :
    /\ \E j \in JobsOf(healthCronQueue, p, "weather-alert") :
         j.data.waveStatus.urgency = "high" /\ j.timestamp < now
    /\ JobsOf(healthCronQueue, p, "symptom") # {}
    /\ JobsOf(scheduleWeatherAlertCheckin(
                healthCronQueue, p,
                [urgency |-> "routine", type |-> "senior_heat_monitoring"], now),
              p, "weather-alert") = {}

\* the data of a job that say whose chain it belongs to and at what cadence:
\* everything but the check number and the start time
ChainOf(data) == [data EXCEPT !.checkNumber = 0, !.startTime = 0]

\* C16: when a job of a self-rescheduled track (Symptom, WeatherAlert) with
\* check number n fires, the successor its handler enqueues has check number
\* n + 1 and the patient, track, level, interval and context of the fired job.
C16_SuccessorNumbered ==
  [][\A job \in healthCronQueue :
       (ProcessRecurringHealthMonitor(job, TRUE) \/ ProcessWeatherAlertCheckin(job)) =>
         \E k \in JobsOf(healthCronQueue', job.data.phoneNumber, job.data.tag) :
           /\ k.data.checkNumber = job.data.checkNumber + 1
           /\ ChainOf(k.data) = ChainOf(job.data)]_vars

----------------------------------------------------------------------------
(* src/unnamed/part_001: the bounded monitoring of MonitoringScheduler *)

\* AI_MONITORING_PATTERNS: the check intervals in minutes
monitoringPatterns ==
  [CRITICAL |-> <<30, 60, 120, 240>>,
   HIGH |-> <<120, 240, 480, 720>>,
   MODERATE |-> <<360, 720, 1080, 1440>>]

AISymptomJobId(phoneNumber, t, i) == <<"ai-symptom", phoneNumber, t, i>>

\* the jobs of the bounded monitoring of a patient, in any state
AIJobs(q, phoneNumber) ==
  {j \in q : j.name = "ai_symptom_monitoring" /\ j.data.phoneNumber = phoneNumber}

\* cancelAIMonitoring: remove the patient's delayed and waiting jobs
cancelAIMonitoring(q, phoneNumber) == q \ (AIJobs(q, phoneNumber) \cap Pending(q))

\* scheduleAISymptomMonitoring: one job for each interval of the pattern
scheduleAISymptomMonitoring(q, phoneNumber, riskLevel, t) ==
  LET intervals == monitoringPatterns[riskLevel]
      cancelled == cancelAIMonitoring(q, phoneNumber)
  IN cancelled \cup
     {job \in {NewJob("ai_symptom_monitoring",
                      [phoneNumber |-> phoneNumber, checkType |-> "ai_symptom",
                       riskLevel |-> riskLevel, checkNumber |-> i,
                       totalChecks |-> Len(intervals)],
                      AISymptomJobId(phoneNumber, t, i),
                      intervals[i] * 60 * 1000, 0, t) : i \in 1..Len(intervals)} :
        getJob(cancelled, job.id) = {}}

processLegacyWithSuccessor(q, job) ==
  (q \ {job}) \cup
  {[job EXCEPT !.state = "completed"],
   [job EXCEPT !.id = AISymptomJobId(job.data.phoneNumber, job.timestamp,
                                     job.data.checkNumber + 1),
               !.data.checkNumber = @ + 1,
               !.delay = @ + 30 * 60 * 1000]}

\* the worker's handler for a job whose name it does not know, which is the
\* case of "ai_symptom_monitoring": send the check-in; nothing is enqueued
processLegacySymptomCheck(q, job) ==
  (q \ {job}) \cup {[job EXCEPT !.state = "completed"]}

\* a bounded monitoring is started for a patient who has none
ScheduleAISymptomMonitoring(phoneNumber, riskLevel) ==
  /\ AIJobs(healthCronQueue, phoneNumber) = {}
  /\ healthCronQueue' =
       scheduleAISymptomMonitoring(healthCronQueue, phoneNumber, riskLevel, now)
  /\ UNCHANGED <<now, whatsappQueue, patients, detected, outcome, calls, monitors>>

ProcessLegacySymptomCheck(job) ==
  /\ job \in Due(healthCronQueue, now)
  /\ job.name \notin {"daily_health_check", "daily-health-checkup",
                      "weather-monitoring", "heat-wave-monitoring", "ai_symptom",
                      "weather-alert-checkin", "recurring-health-monitor"}
  /\ healthCronQueue' = processLegacySymptomCheck(healthCronQueue, job)
  /\ UNCHANGED <<now, whatsappQueue, patients, detected, outcome, calls, monitors>>

\* time passes until the next job is due
AdvanceToDue ==
  /\ Pending(healthCronQueue) # {}
  /\ Due(healthCronQueue, now) = {}
  /\ \E j \in Pending(healthCronQueue) :
       /\ \A k \in Pending(healthCronQueue) : dueAt(j) <= dueAt(k)
       /\ now' = dueAt(j)
  /\ UNCHANGED <<healthCronQueue, whatsappQueue, patients, detected, outcome, calls, monitors>>

NextBounded ==
  \/ \E p \in Phones, riskLevel \in DOMAIN monitoringPatterns :
       ScheduleAISymptomMonitoring(p, riskLevel)
  \/ \E job \in healthCronQueue : ProcessLegacySymptomCheck(job)
  \/ AdvanceToDue

\* the worker handles due jobs and time does not stop
SpecBounded == InitAnyTime /\ [][NextBounded]_vars /\ WF_vars(NextBounded)

\* the jobs of a patient's bounded monitoring that have fired
Fired(q, phoneNumber) == {j \in AIJobs(q, phoneNumber) : j.state = "completed"}

\* C17: a bounded chain started with totalChecks = 4 and never cancelled fires
\* exactly 4 times and then terminates: there are never more than the 4 jobs
\* numbered 1..4, a fire enqueues no successor, and in the end 4 jobs have
\* fired and zero are pending.
C17_BoundedChain ==
  /\ [](\A p \in Phones :
          LET jobs == AIJobs(healthCronQueue, p)
          IN jobs # {} =>
               /\ Cardinality(jobs) = 4
               /\ {j.data.checkNumber : j \in jobs} = 1..4
               /\ \A j \in jobs : j.data.totalChecks = 4
               /\ \A j \in jobs : j.state \in {"delayed", "completed"})
  /\ [][\A p \in Phones :
          Fired(healthCronQueue', p) # Fired(healthCronQueue, p) =>
            /\ Cardinality(Fired(healthCronQueue', p)) =
                 Cardinality(Fired(healthCronQueue, p)) + 1
            /\ Cardinality(Pending(healthCronQueue')) =
                 Cardinality(Pending(healthCronQueue)) - 1
            /\ {j.id : j \in healthCronQueue'} = {j.id : j \in healthCronQueue}]_vars
  /\ <>[](\A p \in Phones :
            /\ Cardinality(Fired(healthCronQueue, p)) = 4
            /\ Pending(healthCronQueue) = {})

\* the four checks of a CRITICAL monitoring have fired, four hours after its
\* start, and nothing is pending
C17_Witness ==
  \E p \in Phones :
    /\ Cardinality(Fired(healthCronQueue, p)) = 4
    /\ Pending(healthCronQueue) = {}
    /\ \A j \in Fired(healthCronQueue, p) :
         j.data.riskLevel = "CRITICAL" /\ now = j.timestamp + 240 * MinuteMs

\* C18: the Daily track recurs every 24 hours through the repeat of the job
\* store only: every pending Daily job repeats every 24 hours, and a fire of
\* the Daily handler starts, cancels and enqueues nothing: the other jobs and
\* the outgoing messages are as before, and the fired job itself, with the
\* id and the creation time it had, is due again 24 hours later.
C18_DailyRepeatsNatively ==
  /\ [](\A j \in Pending(healthCronQueue) :
          j.name = "daily-health-checkup" => j.repeatEvery = DayMs)
  /\ [][\A job \in healthCronQueue :
          ProcessDailyRoutineCheckup(job, TRUE) =>
            /\ whatsappQueue' = whatsappQueue
            /\ patients' = patients
            /\ \E k \in healthCronQueue' :
                 /\ healthCronQueue' \ {k} = healthCronQueue \ {job}
                 /\ k.id = job.id /\ k.name = job.name
                 /\ k.timestamp = job.timestamp
                 /\ k.data.phoneNumber = job.data.phoneNumber
                 /\ k.state = "delayed"
                 /\ dueAt(k) = dueAt(job) + DayMs]_vars

\* the Daily job started at 08:45 has fired at 09:00 and waits for 09:00 of
\* the next day
C18_Witness ==
  \E j \in Pending(healthCronQueue) :
    /\ j.name = "daily-health-checkup"
    /\ j.timestamp = StartTime
    /\ now >= 9 * 60 * MinuteMs
    /\ dueAt(j) = DayMs + 9 * 60 * MinuteMs

\* C20: when a message disables the monitoring of a patient (the "stop"
\* command sets monitoringEnabled to false), all tracks of the patient are
\* cancelled: in the queue the webhook leaves, zero Daily, zero Symptom and
\* zero WeatherAlert jobs are pending for the patient.
C20_DisabledCancelsAll ==
  \A p \in Phones, Body \in Bodies, analysis \in Analyses :
    LET r == whatsappWebhook(healthCronQueue, patients[p], p, Body, analysis, now)
    IN (r.patient = "disabled" /\ patients[p] # "disabled") =>
         \A tag \in Tags : JobsOf(r.queue, p, tag) = {}

\* a patient with the three tracks pending sends "stop"
C20_Witness ==
  \E p \in Phones :
    /\ patients[p] = "enabled"
    /\ \A tag \in Tags : JobsOf(healthCronQueue, p, tag) # {}
    /\ LET r == whatsappWebhook(healthCronQueue, patients[p], p, Str("stop"), Null, now)
       IN r.patient = "disabled" /\ r.action = "stop"

----------------------------------------------------------------------------
(* src/queue.js on a job store that may fail *)

\* the job store during one call: the operations of the cancel (getJob,
\* remove) fail or work, and so does the add
StoreFailures == [cancel : BOOLEAN, add : BOOLEAN]

\* cancelHealthCheckups: every exception is caught inside and logged, so the
\* call always returns normally
cancelHealthCheckupsOnStore(q, phoneNumber, tag, store) ==
  [queue |-> IF store.cancel THEN q ELSE cancelHealthCheckups(q, phoneNumber, tag),
   threw |-> FALSE]

\* the job that scheduleHealthCheckup adds
healthCheckupJob(phoneNumber, symptom, riskLevel, tag, t) ==
  CHOOSE job \in scheduleHealthCheckup({}, phoneNumber, symptom, riskLevel, tag, t) : TRUE

\* the job that scheduleDailyCheckup adds
dailyCheckupJob(phoneNumber, t) ==
  CHOOSE job \in scheduleDailyCheckup({}, phoneNumber, t) : TRUE

\* scheduleHealthCheckup: the cancel comes first and keeps its errors to
\* itself; a rejected add is thrown to the caller
scheduleHealthCheckupOnStore(q, phoneNumber, symptom, riskLevel, tag, t, store) ==
  LET cancelled == cancelHealthCheckupsOnStore(q, phoneNumber, tag, store).queue
  IN IF store.add
       THEN [queue |-> cancelled, threw |-> TRUE]
       ELSE [queue |-> add(cancelled,
                           healthCheckupJob(phoneNumber, symptom, riskLevel, tag, t)),
             threw |-> FALSE]

scheduleDailyCheckupOnStore(q, phoneNumber, t, store) ==
  LET cancelled == cancelHealthCheckupsOnStore(q, phoneNumber, "daily", store).queue
  IN IF store.add
       THEN [queue |-> cancelled, threw |-> TRUE]
       ELSE [queue |-> add(cancelled, dailyCheckupJob(phoneNumber, t)),
             threw |-> FALSE]

\* updateMonitoringFrequency: the whole body is in a try block whose catch
\* logs the error
updateMonitoringFrequencyOnStore(q, phoneNumber, newRiskLevel, tag, t, store) ==
  LET cancelled == cancelHealthCheckupsOnStore(q, phoneNumber, tag, store).queue
  IN [queue |-> IF tag = "symptom"
                  THEN scheduleHealthCheckupOnStore(cancelled, phoneNumber,
                                                    Str("updated"), newRiskLevel,
                                                    tag, t, store).queue
                  ELSE cancelled,
      threw |-> FALSE]

\* what the caller of a mutating call saw
Outcome(call, phoneNumber, tag, store, threw) ==
  [call |-> call, phoneNumber |-> phoneNumber, tag |-> tag,
   storeFailed |-> store.cancel \/ (store.add /\ call # "cancel"),
   threw |-> threw]

StartOnStore(phoneNumber, riskLevel, store) ==
  LET r == scheduleHealthCheckupOnStore(healthCronQueue, phoneNumber,
                                        Str("i feel dizzy"), riskLevel, "symptom",
                                        now, store)
  IN /\ healthCronQueue' = r.queue
     /\ outcome' = Outcome("start", phoneNumber, "symptom", store, r.threw)
     /\ UNCHANGED <<now, whatsappQueue, patients, detected, calls, monitors>>

StartDailyOnStore(phoneNumber, store) ==
  LET r == scheduleDailyCheckupOnStore(healthCronQueue, phoneNumber, now, store)
  IN /\ healthCronQueue' = r.queue
     /\ outcome' = Outcome("start", phoneNumber, "daily", store, r.threw)
     /\ UNCHANGED <<now, whatsappQueue, patients, detected, calls, monitors>>

CancelOnStore(phoneNumber, tag, store) ==
  LET r == cancelHealthCheckupsOnStore(healthCronQueue, phoneNumber, tag, store)
  IN /\ healthCronQueue' = r.queue
     /\ outcome' = Outcome("cancel", phoneNumber, tag, store, r.threw)
     /\ UNCHANGED <<now, whatsappQueue, patients, detected, calls, monitors>>

UpdateOnStore(phoneNumber, newRiskLevel, tag, store) ==
  LET r == updateMonitoringFrequencyOnStore(healthCronQueue, phoneNumber,
                                            newRiskLevel, tag, now, store)
  IN /\ healthCronQueue' = r.queue
     /\ outcome' = Outcome("update", phoneNumber, tag,
                           [store EXCEPT !.add = @ /\ tag = "symptom"], r.threw)
     /\ UNCHANGED <<now, whatsappQueue, patients, detected, calls, monitors>>

\* time passes between two calls
TickOnStore ==
  /\ now < StartTime + MaxTicks * TickMs
  /\ now' = now + TickMs
  /\ outcome' = Null
  /\ UNCHANGED <<healthCronQueue, whatsappQueue, patients, detected, calls, monitors>>

\* scheduleWeatherAlertCheckin on the same store
scheduleWeatherAlertCheckinOnStore(q, phoneNumber, waveStatus, t, store) ==
  LET cancelled ==
        cancelHealthCheckupsOnStore(q, phoneNumber, "weather-alert", store).queue
      job == CHOOSE j \in scheduleWeatherAlertCheckin({}, phoneNumber, waveStatus, t) : TRUE
  IN IF waveStatus.urgency = "emergency" \/ waveStatus.urgency = "high"
       THEN IF store.add
              THEN [queue |-> cancelled, threw |-> TRUE]
              ELSE [queue |-> add(cancelled, job), threw |-> FALSE]
       ELSE [queue |-> cancelled, threw |-> FALSE]

StartWeatherOnStore(phoneNumber, urgency, store) ==
  LET r == scheduleWeatherAlertCheckinOnStore(
             healthCronQueue, phoneNumber,
             [urgency |-> urgency, type |-> "senior_heat_monitoring"], now, store)
  IN /\ healthCronQueue' = r.queue
     /\ outcome' = Outcome("start", phoneNumber, "weather-alert", store, r.threw)
     /\ UNCHANGED <<now, whatsappQueue, patients, detected, calls, monitors>>

processRecurringScheduleFirst(q, job, t, store) ==
  IF store.add
    THEN [queue |-> (q \ {job}) \cup {retried(job, t)},
          effects |-> <<"schedule-rejected">>, threw |-> TRUE]
    ELSE [queue |-> (q \ {job}) \cup {[job EXCEPT !.state = "completed"]},
          effects |-> <<"schedule", "dispatch">>, threw |-> FALSE]

\* processRecurringHealthMonitor: the message is sent and logged, then
\* scheduleHealthCheckup is called while the job is active; an exception is
\* logged and thrown again, which makes the worker retry the job
processRecurringHealthMonitorOnStore(q, job, t, store) ==
  LET active == [job EXCEPT !.state = "active"]
      rescheduled ==
        scheduleHealthCheckupOnStore((q \ {job}) \cup {active},
                                     job.data.phoneNumber, job.data.symptom,
                                     job.data.riskLevel, job.data.tag, t, store)
  IN IF rescheduled.threw
       THEN [queue |-> (q \ {job}) \cup {retried(job, t)},
             effects |-> <<"dispatch", "schedule-rejected">>, threw |-> TRUE]
       ELSE [queue |-> {IF j = active THEN [j EXCEPT !.state = "completed"] ELSE j :
                          j \in rescheduled.queue},
             effects |-> <<"dispatch", "schedule">>, threw |-> FALSE]

\* processWeatherAlertCheckin: whatsappQueue is not bound in the worker
\* module, so the handler throws before it sends or schedules anything
processWeatherAlertCheckinOnStore(q, job, t, store) ==
  [queue |-> (q \ {job}) \cup {retried(job, t)}, effects |-> <<>>, threw |-> TRUE]

\* what a fire handler did, in order, and how it ended
Fire(job, store, r) ==
  [call |-> "fire", phoneNumber |-> job.data.phoneNumber, tag |-> job.data.tag,
   storeFailed |-> store.cancel \/ store.add, threw |-> r.threw,
   effects |-> r.effects]

FireRecurringOnStore(job, store) ==
  LET r == processRecurringHealthMonitorOnStore(healthCronQueue, job, now, store)
  IN /\ job \in Due(healthCronQueue, now)
     /\ job.name = "recurring-health-monitor"
     /\ healthCronQueue' = r.queue
     /\ outcome' = Fire(job, store, r)
     /\ UNCHANGED <<now, whatsappQueue, patients, detected, calls, monitors>>

FireWeatherOnStore(job, store) ==
  LET r == processWeatherAlertCheckinOnStore(healthCronQueue, job, now, store)
  IN /\ job \in Due(healthCronQueue, now)
     /\ job.name = "weather-alert-checkin"
     /\ healthCronQueue' = r.queue
     /\ outcome' = Fire(job, store, r)
     /\ UNCHANGED <<now, whatsappQueue, patients, detected, calls, monitors>>

NextStore ==
  \/ \E p \in Phones, level \in StartLevels, store \in StoreFailures :
       StartOnStore(p, level, store)
  \/ \E p \in Phones, store \in StoreFailures : StartDailyOnStore(p, store)
  \/ \E p \in Phones, urgency \in Urgencies, store \in StoreFailures :
       StartWeatherOnStore(p, urgency, store)
  \/ \E p \in Phones, tag \in Tags \cup {"all"}, store \in StoreFailures :
       CancelOnStore(p, tag, store)
  \/ \E p \in Phones, level \in EscalateLevels, tag \in Tags, store \in StoreFailures :
       UpdateOnStore(p, level, tag, store)
  \/ \E job \in healthCronQueue, store \in StoreFailures : FireRecurringOnStore(job, store)
  \/ \E job \in healthCronQueue, store \in StoreFailures : FireWeatherOnStore(job, store)
  \/ TickOnStore

SpecStore == Init /\ [][NextStore]_vars

\* C21: a start that fails (the job store rejects the add) leaves the chain
\* as it was: the jobs pending for (patient, track) before the call, with
\* their level and due time, are the jobs pending after it.
C21_FailedStartKeepsChain ==
  [][(outcome' # Null /\ outcome'.call = "start" /\ outcome'.threw) =>
       JobsOf(healthCronQueue', outcome'.phoneNumber, outcome'.tag) =
         JobsOf(healthCronQueue, outcome'.phoneNumber, outcome'.tag)]_vars

\* C22: when the job store fails during a mutating call (start, cancel,
\* escalate or deescalate) the caller gets the error and the call is all or
\* nothing: the call throws and the job store is as it was before the call.
C22_StoreErrorPropagated ==
  [][(/\ outcome' # Null
      /\ outcome'.call \in {"start", "cancel", "update"}
      /\ outcome'.storeFailed) =>
       (outcome'.threw /\ healthCronQueue' = healthCronQueue)]_vars

\* the steps of a fire handler that schedule the successor
Scheduling == {"schedule", "schedule-rejected"}

C24_BrokenChainSurfaced ==
  (/\ outcome # Null
   /\ outcome.call = "fire"
   /\ \E i \in 1..Len(outcome.effects) : outcome.effects[i] = "dispatch"
   /\ JobsOf(healthCronQueue, outcome.phoneNumber, outcome.tag) = {}) =>
    outcome.threw

----------------------------------------------------------------------------
(* src/queue.js: calls of scheduleHealthCheckup that overlap *)

\* two callers (two webhook requests, or a request and a worker)
Callers == {"A", "B"}

\* the awaits of scheduleHealthCheckup, in order: getJob and remove in
\* cancelHealthCheckups, then add
InitOverlap ==
  /\ now = StartTime
  /\ healthCronQueue = {}
  /\ whatsappQueue = <<>>
  /\ patients = [p \in Phones |-> "absent"]
  /\ detected = Null
  /\ outcome = Null
  /\ calls = [c \in Callers |-> [pc |-> "idle", phoneNumber |-> "", riskLevel |-> "",
                                 found |-> FALSE]]
  /\ InitMonitors

\* scheduleHealthCheckup(phoneNumber, symptom, riskLevel, "symptom") is entered
Begin(c, phoneNumber, riskLevel) ==
  /\ calls[c].pc = "idle"
  /\ calls' = [calls EXCEPT ![c] = [pc |-> "getJob", phoneNumber |-> phoneNumber,
                                    riskLevel |-> riskLevel, found |-> FALSE]]
  /\ UNCHANGED <<now, healthCronQueue, whatsappQueue, patients, detected, outcome, monitors>>

\* const symptomJob = await healthCronQueue.getJob(symptomJobId)
GetJob(c) ==
  /\ calls[c].pc = "getJob"
  /\ calls' = [calls EXCEPT
                 ![c].found = getJob(healthCronQueue,
                                     cancelJobId(calls[c].phoneNumber, "symptom")) # {},
                 ![c].pc = "remove"]
  /\ UNCHANGED <<now, healthCronQueue, whatsappQueue, patients, detected, outcome, monitors>>

\* if (symptomJob) await symptomJob.remove(): the job of that id is removed,
\* whoever added it; then the legacy loop
Remove(c) ==
  /\ calls[c].pc = "remove"
  /\ healthCronQueue' =
       IF calls[c].found
         THEN cancelTag(healthCronQueue, calls[c].phoneNumber, "symptom")
         ELSE cancelLegacy(healthCronQueue, calls[c].phoneNumber, "symptom")
  /\ calls' = [calls EXCEPT ![c].pc = "add"]
  /\ UNCHANGED <<now, whatsappQueue, patients, detected, outcome, monitors>>

\* await healthCronQueue.add("recurring-health-monitor", ...), and the return
Add(c) ==
  /\ calls[c].pc = "add"
  /\ healthCronQueue' =
       add(healthCronQueue,
           healthCheckupJob(calls[c].phoneNumber, Str("i feel dizzy"),
                            calls[c].riskLevel, "symptom", now))
  /\ calls' = [calls EXCEPT ![c].pc = "idle"]
  /\ UNCHANGED <<now, whatsappQueue, patients, detected, outcome, monitors>>

NextOverlap ==
  \/ \E c \in Callers, p \in Phones, level \in RiskLevels : Begin(c, p, level)
  \/ \E c \in Callers : GetJob(c)
  \/ \E c \in Callers : Remove(c)
  \/ \E c \in Callers : Add(c)

\* every call that was entered runs on
SpecOverlap == InitOverlap /\ [][NextOverlap]_vars /\ WF_vars(NextOverlap)

\* two live jobs for one identity
TwoLiveJobs ==
  \E p \in Phones, tag \in Tags : Cardinality(JobsOf(healthCronQueue, p, tag)) >= 2

\* C25 as stated: two overlapping starts for the same (patient, track) get
\* to a state with two live jobs for that identity.
C25_TwoLiveJobsReached == <>TwoLiveJobs

\* C25 as amended: two overlapping starts never leave two live jobs for the
\* identity, in any interleaving of their getJob, remove and add; when both
\* have returned exactly one job is pending, and it is the job of one of
\* the two calls.
C25_OverlapKeepsOneJob ==
  /\ ~TwoLiveJobs
  /\ \A p \in Phones :
       (/\ \A c \in Callers : calls[c].pc = "idle"
        /\ \E c \in Callers : calls[c].phoneNumber = p) =>
         /\ Cardinality(JobsOf(healthCronQueue, p, "symptom")) = 1
         /\ \A j \in JobsOf(healthCronQueue, p, "symptom") :
              \E c \in Callers : j.data.riskLevel = calls[c].riskLevel

\* both calls have found the prior job and gone through its removal, and
\* each is about to add its own job
C25_Witness ==
  /\ \A c \in Callers : calls[c].pc = "add" /\ calls[c].found
  /\ calls["A"].riskLevel # calls["B"].riskLevel
  /\ \A c \in Callers : JobsOf(healthCronQueue, calls[c].phoneNumber, "symptom") = {}

----------------------------------------------------------------------------
(* Order and levels of the chains *)

C27_ReportNeverLowersLevel ==
  \A p \in Phones, Body \in Bodies, analysis \in Analyses :
    LET r == whatsappWebhook(healthCronQueue, patients[p], p, Body, analysis, now)
    IN r.action \in {"symptoms", "symptoms-unavailable"} =>
         \A j \in JobsOf(healthCronQueue, p, "symptom"),
            k \in JobsOf(r.queue, p, "symptom") :
           k.data.intervalMinutes <= j.data.intervalMinutes

----------------------------------------------------------------------------
(* Retries and independence *)

\* the time between a call and its retry, in ms
RetryDelays == {0, 1000, TickMs}

\* the pending jobs without their times: creation, delay, start and check time
Timeless(q) ==
  {[j EXCEPT !.timestamp = 0, !.delay = 0,
             !.data = [f \in DOMAIN j.data |->
                         IF f \in {"startTime", "checkTime"} THEN 0 ELSE j.data[f]]] :
     j \in Pending(q)}

\* the calls that are retried, with the fires and the clock
NextRetry ==
  \/ \E p \in Phones, level \in StartLevels : ScheduleHealthCheckup(p, level)
  \/ \E p \in Phones : ScheduleDailyCheckup(p)
  \/ \E p \in Phones, urgency \in Urgencies : ScheduleWeatherAlertCheckin(p, urgency)
  \/ \E p \in Phones, level \in EscalateLevels, tag \in Tags :
       UpdateMonitoringFrequency(p, level, tag)
  \/ \E job \in healthCronQueue : ProcessRecurringHealthMonitor(job, TRUE)
  \/ \E job \in healthCronQueue : ProcessWeatherAlertCheckin(job)
  \/ \E job \in healthCronQueue : ProcessDailyRoutineCheckup(job, TRUE)
  \/ AdvanceTime

SpecRetry == Init /\ [][NextRetry]_vars

\* C28: mutating calls are retry-idempotent: the same start (of the Symptom,
\* Daily or WeatherAlert track) or the same escalate issued twice in sequence
\* leaves the pending jobs that issuing it once leaves, up to the due time of
\* the single resulting job.
C28_RetryIdempotent ==
  \A p \in Phones, d \in RetryDelays :
    /\ \A level \in RiskLevels, tag \in Tags :
         /\ LET once == scheduleHealthCheckup(healthCronQueue, p, Str("i feel dizzy"),
                                              level, tag, now)
                twice == scheduleHealthCheckup(once, p, Str("i feel dizzy"),
                                               level, tag, now + d)
            IN /\ Timeless(twice) = Timeless(once)
               /\ Cardinality(JobsOf(twice, p, tag)) = 1
         /\ LET once == updateMonitoringFrequency(healthCronQueue, p, level, tag, now)
                twice == updateMonitoringFrequency(once, p, level, tag, now + d)
            IN Timeless(twice) = Timeless(once)
    /\ LET once == scheduleDailyCheckup(healthCronQueue, p, now)
           twice == scheduleDailyCheckup(once, p, now + d)
       IN Timeless(twice) = Timeless(once)
    /\ \A urgency \in Urgencies :
         LET waveStatus == [urgency |-> urgency, type |-> "senior_heat_monitoring"]
             once == scheduleWeatherAlertCheckin(healthCronQueue, p, waveStatus, now)
             twice == scheduleWeatherAlertCheckin(once, p, waveStatus, now + d)
         IN Timeless(twice) = Timeless(once)

\* a start at level high was just made, and its retry one second later
\* replaces the job by one that is due one second later
C28_Witness ==
  \E p \in Phones :
    /\ \E j \in JobsOf(healthCronQueue, p, "symptom") :
         j.timestamp = now /\ j.data.riskLevel = "high"
    /\ \A k \in JobsOf(scheduleHealthCheckup(healthCronQueue, p, Str("i feel dizzy"),
                                             "high", "symptom", now + 1000),
                       p, "symptom") :
         k.timestamp = now + 1000 /\ dueAt(k) = now + 1000 + 5 * MinuteMs

\* two patients; the first is the one under weather alert
TwoPhones == {"+15550001", "+15550002"}

NextTwoPatients ==
  \/ \E p \in TwoPhones : ScheduleHealthCheckup(p, "high")
  \/ \E p \in TwoPhones : ScheduleDailyCheckup(p)
  \/ \E p \in Phones : ScheduleWeatherAlertCheckin(p, "emergency")
  \/ \E p \in TwoPhones, tag \in Tags \cup {"all"} : CancelHealthCheckups(p, tag)
  \/ \E job \in healthCronQueue : ProcessRecurringHealthMonitor(job, TRUE)
  \/ \E job \in healthCronQueue : ProcessWeatherAlertCheckin(job)
  \/ \E job \in healthCronQueue : ProcessDailyRoutineCheckup(job, TRUE)
  \/ AdvanceTime

SpecTwoPatients == Init /\ [][NextTwoPatients]_vars

\* the pending jobs of every identity but (phoneNumber, tag) are in q2 as in q1
OthersUnchanged(q1, q2, phoneNumber, tag) ==
  \A p \in TwoPhones, t \in Tags :
    (p # phoneNumber \/ t # tag) => JobsOf(q2, p, t) = JobsOf(q1, p, t)

\* the pending jobs of every other patient are in q2 as in q1
OtherPatientsUnchanged(q1, q2, phoneNumber) ==
  \A p \in TwoPhones \ {phoneNumber}, t \in Tags : JobsOf(q2, p, t) = JobsOf(q1, p, t)

\* C29: tracks and patients are independent: a start, a cancel, an escalate
\* and a fire on identity (p, t) leave the pending jobs of every other track
\* of p and of every other patient as they were; a cancel with tag "all"
\* touches tracks of its own patient only.
C29_TracksIndependent ==
  /\ [](\A p \in TwoPhones :
          LET q == healthCronQueue
          IN /\ \A level \in RiskLevels :
                  OthersUnchanged(q, scheduleHealthCheckup(q, p, Str("i feel dizzy"), level,
                                                           "symptom", now),
                                  p, "symptom")
             /\ OthersUnchanged(q, scheduleDailyCheckup(q, p, now), p, "daily")
             /\ \A urgency \in Urgencies :
                  OthersUnchanged(
                    q, scheduleWeatherAlertCheckin(
                         q, p, [urgency |-> urgency, type |-> "senior_heat_monitoring"],
                         now),
                    p, "weather-alert")
             /\ \A tag \in Tags :
                  /\ OthersUnchanged(q, cancelHealthCheckups(q, p, tag), p, tag)
                  /\ \A level \in RiskLevels :
                       OthersUnchanged(q, updateMonitoringFrequency(q, p, level, tag, now),
                                       p, tag)
             /\ OtherPatientsUnchanged(q, cancelHealthCheckups(q, p, "all"), p))
  /\ [][\A job \in healthCronQueue :
          (\/ ProcessRecurringHealthMonitor(job, TRUE)
           \/ ProcessWeatherAlertCheckin(job)
           \/ ProcessDailyRoutineCheckup(job, TRUE)) =>
            OthersUnchanged(healthCronQueue, healthCronQueue',
                            job.data.phoneNumber, job.data.tag)]_vars

\* the Symptom track of one patient was started again at 09:00 while its
\* Daily job and the Symptom job of the other patient, both of 08:45, wait
C29_Witness ==
  /\ \E j \in JobsOf(healthCronQueue, "+15550001", "symptom") : j.timestamp > StartTime
  /\ \E j \in JobsOf(healthCronQueue, "+15550001", "daily") : j.timestamp = StartTime
  /\ \E j \in JobsOf(healthCronQueue, "+15550002", "symptom") :
       j.timestamp = StartTime /\ j.data.riskLevel = "high"

----------------------------------------------------------------------------
(* The two schedulers of the Daily track *)

DailyHealthJobId(phoneNumber) == <<"daily-health", phoneNumber>>

\* MonitoringScheduler.scheduleDailyHealthCheck: a job "daily_health_check"
\* repeated by the pattern "0 9 * * *", added without a cancel
scheduleDailyHealthCheck(q, phoneNumber, t) ==
  add(q, NewJob("daily_health_check",
                [phoneNumber |-> phoneNumber, checkType |-> "daily"],
                DailyHealthJobId(phoneNumber),
                next9AM(t) - t, 24 * 60 * 60 * 1000, t))

\* the pending jobs of the identity (patient, Daily), whoever scheduled them
DailyJobs(q, phoneNumber) ==
  {j \in Pending(q) : /\ j.name \in {"daily-health-checkup", "daily_health_check"}
                      /\ j.data.phoneNumber = phoneNumber}

ScheduleDailyHealthCheck(phoneNumber) ==
  /\ healthCronQueue' = scheduleDailyHealthCheck(healthCronQueue, phoneNumber, now)
  /\ UNCHANGED <<now, whatsappQueue, patients, detected, outcome, calls, monitors>>

\* half an hour passes after the first start
LaterStart ==
  /\ healthCronQueue # {}
  /\ \A j \in healthCronQueue : j.timestamp = now /\ j.name = "daily-health-checkup"
  /\ now + 2 * TickMs \in StartTimes
  /\ now' = now + 2 * TickMs
  /\ UNCHANGED <<healthCronQueue, whatsappQueue, patients, detected, outcome, calls, monitors>>

NextDaily ==
  \/ \E p \in Phones : ScheduleDailyHealthCheck(p)
  \/ \E p \in Phones : ScheduleDailyCheckup(p)
  \/ \E p \in Phones : CancelHealthCheckups(p, "daily")
  \/ LaterStart

SpecDaily == InitAnyTime /\ [][NextDaily]_vars

\* C30: when more than one job is found for an identity that is expected
\* to be unique, the controller heals it: after a start on an identity that
\* had more than one pending job, exactly one job is pending for it, the
\* most recently created one.
C30_DuplicatesHealed ==
  [][\A p \in Phones :
       (Cardinality(DailyJobs(healthCronQueue, p)) > 1 /\ ScheduleDailyCheckup(p)) =>
         /\ Cardinality(DailyJobs(healthCronQueue', p)) = 1
         /\ \A j \in DailyJobs(healthCronQueue', p) : j.timestamp = now]_vars

----------------------------------------------------------------------------
(* The heat-wave monitor (src/unnamed/part_005, class HeatWaveMonitor) and  *)
(* the senior alerts it sends (src/services/seniorHeatAlerts.js)            *)

SENIOR_HEAT_THRESHOLD == 90
SENIOR_EXTREME_THRESHOLD == 100

\* the patients the sweeps find: a senior and a younger user of one zipcode
HeatUsers ==
  <<[phoneNumber |-> "+15550001", zipcode |-> "94110", age |-> 70],
    [phoneNumber |-> "+15550002", zipcode |-> "94110", age |-> 40]>>

\* results of weatherService.detectHeatWave
HeatWaveData ==
  {[maxFeelsLike |-> 85, isHeatWave |-> FALSE, alertLevel |-> "none"],
   [maxFeelsLike |-> 95, isHeatWave |-> TRUE, alertLevel |-> "warning"],
   [maxFeelsLike |-> 105, isHeatWave |-> TRUE, alertLevel |-> "emergency"]}

\* which of the outside calls of a sweep succeed
SweepIO == [senior : BOOLEAN, ai : BOOLEAN, aiSend : BOOLEAN, general : BOOLEAN]

\* new Date().toDateString(): the calendar day of t
toDateString(t) == t \div DayMs

alertKey(kind, zipcode, level, t) ==
  [kind |-> kind, zipcode |-> zipcode, level |-> level, day |-> toDateString(t)]

Alert(kind, user, level, t) ==
  [kind |-> kind, to |-> user.phoneNumber, key |-> alertKey(kind, user.zipcode, level, t)]

\* this.sentAlerts.set(alertKey, true)
sentAlertsSet(map, key) == [map |-> map \cup {key}, threw |-> FALSE]

\* this.sentAlerts.add(alertKey): sentAlerts is a Map, which has no method
\* add, so the call throws a TypeError and the map is as before
sentAlertsAdd(map, key) == [map |-> map, threw |-> TRUE]

\* generateSeniorHeatAlert: the urgency of the alert
seniorUrgency(heatWaveData) ==
  IF heatWaveData.maxFeelsLike >= SENIOR_EXTREME_THRESHOLD THEN "emergency"
  ELSE IF heatWaveData.maxFeelsLike >= SENIOR_HEAT_THRESHOLD THEN "high"
  ELSE "routine"

\* scheduleSeniorHeatMonitoring: check-ins only during heat events
scheduleSeniorHeatMonitoring(q, phoneNumber, heatWaveData, t) ==
  IF heatWaveData.maxFeelsLike >= SENIOR_HEAT_THRESHOLD
    THEN scheduleWeatherAlertCheckin(
           q, phoneNumber,
           [urgency |-> seniorUrgency(heatWaveData), type |-> "senior_heat_monitoring"], t)
    ELSE q

\* a monitor's state during a sweep: its map, the alerts sent, the job store
\* sendSeniorHeatAlert: st with the alert sent, and whether it reports a send
sendSeniorHeatAlert(st, senior, heatWaveData, io, t) ==
  LET key == alertKey("senior", senior.zipcode, "", t)
      urgency == seniorUrgency(heatWaveData)
      marked == sentAlertsAdd(st.sentAlerts, key)
  IN IF key \in st.sentAlerts THEN [st |-> st, sent |-> FALSE]
     ELSE IF ~io.senior THEN [st |-> st, sent |-> FALSE]
     ELSE [st |-> [sentAlerts |-> marked.map,
                   alerts |-> Append(st.alerts, Alert("senior", senior, "", t)),
                   queue |-> IF urgency = "emergency" \/ urgency = "high"
                               THEN scheduleSeniorHeatMonitoring(
                                      st.queue, senior.phoneNumber, heatWaveData, t)
                               ELSE st.queue],
           sent |-> ~marked.threw]

sendHeatWaveAlert(st, user, heatWaveData, io, t) ==
  LET key == alertKey("general", user.zipcode, heatWaveData.alertLevel, t)
      marked == sentAlertsSet(st.sentAlerts, key)
  IN IF key \in st.sentAlerts THEN [st |-> st, sent |-> FALSE]
     ELSE IF ~io.general THEN [st |-> st, sent |-> FALSE]
     ELSE [st |-> [st EXCEPT
                     !.sentAlerts = marked.map,
                     !.alerts = Append(@, Alert("general", user,
                                               heatWaveData.alertLevel, t))],
           sent |-> ~marked.threw]

\* sendAdvancedWeatherAlert: falls back to sendHeatWaveAlert when it throws
sendAdvancedWeatherAlert(st, user, heatWaveData, io, t) ==
  LET key == alertKey("ai", user.zipcode, "", t)
      marked == sentAlertsSet(st.sentAlerts, key)
  IN IF key \in st.sentAlerts THEN [st |-> st, sent |-> FALSE]
     ELSE IF ~io.ai \/ ~io.aiSend THEN sendHeatWaveAlert(st, user, heatWaveData, io, t)
     ELSE [st |-> [st EXCEPT !.sentAlerts = marked.map,
                             !.alerts = Append(@, Alert("ai", user, "", t))],
           sent |-> ~marked.threw]

RECURSIVE sendSeniors(_, _, _, _, _)
sendSeniors(st, users, heatWaveData, io, t) ==
  IF users = <<>> THEN st
  ELSE sendSeniors(
         IF Head(users).age >= 65
           THEN sendSeniorHeatAlert(st, Head(users), heatWaveData, io, t).st
           ELSE st,
         Tail(users), heatWaveData, io, t)

RECURSIVE sendOthers(_, _, _, _, _)
sendOthers(st, users, heatWaveData, io, t) ==
  IF users = <<>> THEN st
  ELSE sendOthers(
         IF Head(users).age < 65
           THEN sendAdvancedWeatherAlert(st, Head(users), heatWaveData, io, t).st
           ELSE st,
         Tail(users), heatWaveData, io, t)

\* checkAllUsers for the one zipcode of HeatUsers: the seniors first, then
\* the others when a heat wave is on; no patient is left out by a flag
checkAllUsers(st, heatWaveData, io, t) ==
  LET seniorsDone == sendSeniors(st, HeatUsers, heatWaveData, io, t)
  IN IF heatWaveData.isHeatWave /\ heatWaveData.alertLevel # "none"
       THEN sendOthers(seniorsDone, HeatUsers, heatWaveData, io, t)
       ELSE seniorsDone

\* processHeatWaveMonitoring: every sweep builds its own HeatWaveMonitor,
\* whose map starts empty
processHeatWaveMonitoring(q, sent, heatWaveData, io, t) ==
  checkAllUsers([sentAlerts |-> {}, alerts |-> sent, queue |-> q], heatWaveData, io, t)

ProcessHeatWaveMonitoring(heatWaveData, io) ==
  /\ Len(alerts) <= MaxBacklog
  /\ LET r == processHeatWaveMonitoring(healthCronQueue, alerts, heatWaveData, io, now)
     IN /\ sentAlerts' = r.sentAlerts
        /\ alerts' = r.alerts
        /\ healthCronQueue' = r.queue
  /\ UNCHANGED <<now, whatsappQueue, patients, detected, outcome, calls, isRunning, sweeps>>

\* C31: once an alert for a key (kind, zipcode, day) was sent, no second
\* alert for that key is sent on that day
C31_NoRepeatedAlert ==
  \A i, k \in 1..Len(alerts) : alerts[i].key = alerts[k].key => i = k

----------------------------------------------------------------------------
(* The weather monitor (src/unnamed/part_005, class WeatherMonitor): one    *)
(* object for the process, whose runWeatherCheck the health-cron worker and *)
(* the manual trigger call; each await of the sweep is a step               *)

Idle(result) == [pc |-> "idle", result |-> result]

InProgress == {s \in Sweepers : sweeps[s].pc # "idle"}

\* lines 19-25: the test of the flag and its setting run without an await
RunWeatherCheck(s) ==
  /\ sweeps[s].pc = "idle"
  /\ IF isRunning
       THEN /\ sweeps' = [sweeps EXCEPT ![s] = Idle("skipped")]
            /\ UNCHANGED isRunning
       ELSE /\ isRunning' = TRUE
            /\ sweeps' = [sweeps EXCEPT ![s] = [pc |-> "findMany", result |-> "none"]]
  /\ UNCHANGED <<now, healthCronQueue, whatsappQueue, patients, detected, outcome, calls,
                 sentAlerts, alerts>>

\* findMany with the early return of line 60 leaving the flag set
FindManyKeepsFlag(s, found) ==
  /\ sweeps[s].pc = "findMany"
  /\ CASE found = "throws" ->
            /\ sweeps' = [sweeps EXCEPT ![s] = Idle("failed")]
            /\ isRunning' = FALSE
       [] found = "nobody" ->
            /\ sweeps' = [sweeps EXCEPT ![s] = Idle("no-patients")]
            /\ UNCHANGED isRunning
       [] OTHER ->
            /\ sweeps' = [sweeps EXCEPT ![s].pc = "getBulkWeather"]
            /\ UNCHANGED isRunning
  /\ UNCHANGED <<now, healthCronQueue, whatsappQueue, patients, detected, outcome, calls,
                 sentAlerts, alerts>>

\* lines 31-61: prisma.patient.findMany throws, finds nobody, or finds patients;
\* the finally block of line 100 runs on every way out
FindMany(s, found) ==
  /\ sweeps[s].pc = "findMany"
  /\ CASE found = "throws" ->
            /\ sweeps' = [sweeps EXCEPT ![s] = Idle("failed")]
            /\ isRunning' = FALSE
       [] found = "nobody" ->
            /\ sweeps' = [sweeps EXCEPT ![s] = Idle("no-patients")]
            /\ isRunning' = FALSE
       [] OTHER ->
            /\ sweeps' = [sweeps EXCEPT ![s].pc = "getBulkWeather"]
            /\ UNCHANGED isRunning
  /\ UNCHANGED <<now, healthCronQueue, whatsappQueue, patients, detected, outcome, calls,
                 sentAlerts, alerts>>

\* line 70: weatherService.getBulkWeather
GetBulkWeather(s, ok) ==
  /\ sweeps[s].pc = "getBulkWeather"
  /\ IF ok
       THEN /\ sweeps' = [sweeps EXCEPT ![s].pc = "processZipWeather"]
            /\ UNCHANGED isRunning
       ELSE /\ sweeps' = [sweeps EXCEPT ![s] = Idle("failed")]
            /\ isRunning' = FALSE
  /\ UNCHANGED <<now, healthCronQueue, whatsappQueue, patients, detected, outcome, calls,
                 sentAlerts, alerts>>

\* lines 76-102: the alerts of the zip codes go to the WhatsApp queue without
\* a delay; a failed alert is logged and the sweep goes on
ProcessZipWeather(s, shouldAlert, level) ==
  /\ sweeps[s].pc = "processZipWeather"
  /\ shouldAlert => Len(alerts) <= MaxBacklog
  /\ alerts' = IF shouldAlert
                 THEN Append(alerts, Alert("weather", HeatUsers[1], level, now))
                 ELSE alerts
  /\ sweeps' = [sweeps EXCEPT ![s] = Idle("completed")]
  /\ isRunning' = FALSE
  /\ UNCHANGED <<now, healthCronQueue, whatsappQueue, patients, detected, outcome, calls,
                 sentAlerts>>

NextMonitors ==
  \/ \E heatWaveData \in HeatWaveData, io \in SweepIO :
       ProcessHeatWaveMonitoring(heatWaveData, io)
  \/ \E s \in Sweepers : RunWeatherCheck(s)
  \/ \E s \in Sweepers, found \in {"throws", "nobody", "patients"} : FindMany(s, found)
  \/ \E s \in Sweepers, ok \in BOOLEAN : GetBulkWeather(s, ok)
  \/ \E s \in Sweepers, shouldAlert \in BOOLEAN, level \in {"warning", "emergency"} :
       ProcessZipWeather(s, shouldAlert, level)
  \/ AdvanceTime

SpecMonitors == Init /\ [][NextMonitors]_vars

\* C39: at most one sweep is in progress and the flag is set exactly while
\* one is, so every way out of a sweep resets it; a call made during a sweep
\* returns at once, sends nothing and leaves the flag alone
C39_SweepsExclusive ==
  /\ [](Cardinality(InProgress) <= 1 /\ (isRunning <=> InProgress # {}))
  /\ [][\A s \in Sweepers :
          (RunWeatherCheck(s) /\ isRunning) =>
            /\ sweeps'[s] = Idle("skipped")
            /\ isRunning'
            /\ alerts' = alerts
            /\ \A other \in Sweepers \ {s} : sweeps'[other] = sweeps[other]]_vars

C39_Witness ==
  \E s, other \in Sweepers :
    /\ sweeps[s].pc = "processZipWeather"
    /\ sweeps[other] = Idle("skipped")
    /\ isRunning

----------------------------------------------------------------------------
(* The fire handlers in flight: the worker marks a due job active, the      *)
(* handler runs to its awaits, and calls of the scheduling helpers can run  *)
(* before it ends (test-twilio-config.js 159-190, 345-428, 490-595)         *)

StoreWorks == [cancel |-> FALSE, add |-> FALSE]

\* the worker takes a due job: the job is locked while its handler runs
WorkerTakes(job) ==
  /\ job \in Due(healthCronQueue, now)
  /\ job.name \in {"recurring-health-monitor", "weather-alert-checkin"}
  /\ healthCronQueue' = (healthCronQueue \ {job}) \cup {[job EXCEPT !.state = "active"]}
  /\ UNCHANGED <<now, whatsappQueue, patients, detected, outcome, calls, monitors>>

\* processRecurringHealthMonitor from its first await to its end: when the
\* send and the log succeed it reschedules and the job completes, when one
\* of them throws the handler rethrows and the job is retried
RecurringHandlerEnds(job, ok) ==
  /\ job \in healthCronQueue
  /\ job.state = "active"
  /\ job.name = "recurring-health-monitor"
  /\ healthCronQueue' =
       IF ok
         THEN {IF j = job THEN [j EXCEPT !.state = "completed"] ELSE j :
                 j \in scheduleHealthCheckup(healthCronQueue, job.data.phoneNumber,
                                             job.data.symptom, job.data.riskLevel,
                                             job.data.tag, now)}
         ELSE (healthCronQueue \ {job}) \cup {retried([job EXCEPT !.state = "delayed"], now)}
  /\ UNCHANGED <<now, whatsappQueue, patients, detected, outcome, calls, monitors>>

\* processWeatherAlertCheckin from its first await to its end: line 382
\* throws and the job is retried
WeatherHandlerEnds(job) ==
  /\ job \in healthCronQueue
  /\ job.state = "active"
  /\ job.name = "weather-alert-checkin"
  /\ healthCronQueue' =
       (healthCronQueue \ {job}) \cup {retried([job EXCEPT !.state = "delayed"], now)}
  /\ UNCHANGED <<now, whatsappQueue, patients, detected, outcome, calls, monitors>>

NextInFlight ==
  \/ \E p \in Phones, level \in StartLevels : StartOnStore(p, level, StoreWorks)
  \/ \E p \in Phones : StartWeatherOnStore(p, "emergency", StoreWorks)
  \/ \E p \in Phones, tag \in {"symptom", "weather-alert"} : CancelOnStore(p, tag, StoreWorks)
  \/ \E job \in healthCronQueue : WorkerTakes(job)
  \/ \E job \in healthCronQueue, ok \in BOOLEAN : RecurringHandlerEnds(job, ok)
  \/ \E job \in healthCronQueue : WeatherHandlerEnds(job)
  \/ AdvanceTime

SpecInFlight == Init /\ [][NextInFlight]_vars

\* C32: when the last call for an identity was a cancel that has returned,
\* no job of that identity is pending, also when a fire handler of the
\* identity was running during the cancel
C32_CancelFinal ==
  ("call" \in DOMAIN outcome /\ outcome.call = "cancel") =>
    JobsOf(healthCronQueue, outcome.phoneNumber, outcome.tag) = {}

----------------------------------------------------------------------------
(* At-least-once delivery: a job whose handler threw is retried, and a job  *)
(* whose lock ran out while its handler runs (a stalled job) goes back to   *)
(* waiting and is delivered again; calls holds the handler runs in progress *)

Run(job, delivery) == [job |-> job, delivery |-> delivery, stalled |-> FALSE]

RunsOf(id) == {i \in 1..Len(calls) : calls[i].job.id = id}

Deliver(job) ==
  /\ job \in Due(healthCronQueue, now)
  /\ job.name \in {"recurring-health-monitor", "weather-alert-checkin"}
  /\ Len(calls) <= MaxBacklog
  /\ healthCronQueue' = (healthCronQueue \ {job}) \cup {[job EXCEPT !.state = "active"]}
  /\ calls' = Append(calls, Run(job, job.attemptsMade + 1 + Cardinality(RunsOf(job.id))))
  /\ UNCHANGED <<now, whatsappQueue, patients, detected, outcome, monitors>>

\* the lock of an active job runs out: the job waits again, its handler runs on
Stall(job) ==
  /\ job \in healthCronQueue
  /\ job.state = "active"
  /\ \E i \in RunsOf(job.id) : ~calls[i].stalled
  /\ healthCronQueue' = (healthCronQueue \ {job}) \cup {[job EXCEPT !.state = "delayed"]}
  /\ calls' = [i \in 1..Len(calls) |->
                 IF calls[i].job.id = job.id THEN [calls[i] EXCEPT !.stalled = TRUE]
                                             ELSE calls[i]]
  /\ UNCHANGED <<now, whatsappQueue, patients, detected, outcome, monitors>>

\* what the handler of a run does to the job store before it returns or throws
handled(q, job, ok, t) ==
  IF job.name = "recurring-health-monitor" /\ ok
    THEN scheduleHealthCheckup(q, job.data.phoneNumber, job.data.symptom,
                               job.data.riskLevel, job.data.tag, t)
    ELSE q

\* the worker settles the job of a run that still holds its lock
settled(q, run, ok, t) ==
  IF run.stalled THEN q
  ELSE {IF j.id = run.job.id /\ j.state = "active"
          THEN IF ok THEN [j EXCEPT !.state = "completed"]
                     ELSE retried([j EXCEPT !.state = "delayed"], t)
          ELSE j : j \in q}

RunEnds(i, ok) ==
  /\ i \in 1..Len(calls)
  /\ calls[i].job.name = "weather-alert-checkin" => ~ok
  /\ healthCronQueue' =
       settled(handled(healthCronQueue, calls[i].job, ok, now), calls[i], ok, now)
  /\ calls' = SubSeq(calls, 1, i - 1) \o SubSeq(calls, i + 1, Len(calls))
  /\ outcome' = [call |-> "fire", phoneNumber |-> calls[i].job.data.phoneNumber,
                 tag |-> calls[i].job.data.tag, delivery |-> calls[i].delivery,
                 threw |-> ~ok]
  /\ UNCHANGED <<now, whatsappQueue, patients, detected, monitors>>

NextRedelivery ==
  \/ \E p \in Phones : StartOnStore(p, "high", StoreWorks)
  \/ \E p \in Phones : StartWeatherOnStore(p, "emergency", StoreWorks)
  \/ \E job \in healthCronQueue : Deliver(job)
  \/ \E job \in healthCronQueue : Stall(job)
  \/ \E i \in 1..Len(calls), ok \in BOOLEAN : RunEnds(i, ok)
  \/ AdvanceTime

SpecRedelivery == Init /\ [][NextRedelivery]_vars

\* C33: however often a due job is delivered to its handler (retried after a
\* throw, or delivered again while a run is in progress), at most one job is
\* pending for its identity, and the store holds one job per job id
C33_OneSuccessor ==
  /\ \A p \in Phones, tag \in Tags : Cardinality(JobsOf(healthCronQueue, p, tag)) <= 1
  /\ \A j \in healthCronQueue : getJob(healthCronQueue, j.id) = {j}

\* the second delivery of a Symptom job has ended, no run is left, and one
\* successor enqueued by a handler is pending
C33_Witness ==
  /\ calls = <<>>
  /\ "delivery" \in DOMAIN outcome
  /\ outcome.delivery >= 2
  /\ \E j \in JobsOf(healthCronQueue, outcome.phoneNumber, outcome.tag) :
       j.timestamp > StartTime

----------------------------------------------------------------------------
\* C34: without a cancel, a fire of a Symptom job (any level) or of an
\* Emergency or High WeatherAlert job, with the store and the dispatcher
\* working, leaves a job pending for the same identity: the re-enqueue made
\* while the fired job holds the job id is not lost
C34_ChainKeepsGoing ==
  [][\A job \in healthCronQueue :
       \/ ProcessRecurringHealthMonitor(job, TRUE)
       \/ /\ ProcessWeatherAlertCheckin(job)
          /\ job.data.waveStatus.urgency \in {"emergency", "high"}
       => JobsOf(healthCronQueue', job.data.phoneNumber, job.data.tag) # {}]_vars

\* C35: for every tag, scheduleHealthCheckup enqueues under the job id that
\* cancelHealthCheckups of the same phone number and tag removes, so a start
\* followed by a cancel with the same tag leaves no job that the start created
C35_StartCancelAgree ==
  \A p \in Phones, level \in RiskLevels, tag \in Tags \cup {"medication"} :
    LET job == healthCheckupJob(p, Str("i feel dizzy"), level, tag, now)
        started == scheduleHealthCheckup(healthCronQueue, p, Str("i feel dizzy"),
                                         level, tag, now)
    IN /\ job.id = cancelJobId(p, tag)
       /\ job \notin cancelHealthCheckups(started, p, tag) \ healthCronQueue

----------------------------------------------------------------------------
(* A patient who has paused the alerts: the webhook, the heat-wave sweep    *)
(* and the fire handlers beside one another                                 *)

NextDisabled ==
  \/ \E p \in Phones, text \in {"stop", "start", "i feel dizzy"}, analysis \in StepAnalyses :
       WhatsappWebhook(p, Str(text), analysis)
  \/ \E heatWaveData \in HeatWaveData, io \in SweepIO :
       ProcessHeatWaveMonitoring(heatWaveData, io)
  \/ \E job \in healthCronQueue : WorkerTakes(job)
  \/ \E job \in healthCronQueue, ok \in BOOLEAN : RecurringHandlerEnds(job, ok)
  \/ \E job \in healthCronQueue : WeatherHandlerEnds(job)
  \/ AdvanceTime

SpecDisabled == Init /\ [][NextDisabled]_vars

\* C36: while the monitoring of a patient is disabled, no check-in job of
\* any track is pending for the patient
C36_DisabledHasNoJobs ==
  \A p \in Phones :
    patients[p] = "disabled" =>
      \A j \in Pending(healthCronQueue) : j.data.phoneNumber # p

\* C37: a symptom report leaves exactly one pending Symptom job for the
\* patient: at the level the classifier gave (emergency when it gave none
\* and set the emergency flag, otherwise medium) when the classifier
\* succeeded, and at level medium, 15 minutes, after a safety message when it
\* threw
C37_ReportStartsOneChain ==
  \A p \in Phones, Body \in Bodies, analysis \in AllAnalyses :
    LET r == whatsappWebhook(healthCronQueue, patients[p], p, Body, analysis, now)
        level == IF analysis = Null THEN "medium"
                 ELSE IF Truthy(analysis.escalationLevel)
                        THEN analysis.escalationLevel.text
                 ELSE IF analysis.emergencyAlert THEN "emergency" ELSE "medium"
    IN r.action \in {"symptoms", "symptoms-unavailable"} =>
         /\ \E j \in healthCronQueue \cup r.queue :
              /\ JobsOf(r.queue, p, "symptom") = {j}
              /\ j.data.riskLevel = level
              /\ j.timestamp = now
              /\ analysis = Null => j.delay = 15 * MinuteMs
         /\ analysis = Null =>
              \E i \in 1..Len(r.messages) :
                r.messages[i].message \in {"emergency-detected", "service-unavailable"}

----------------------------------------------------------------------------
(* handlePollResponse called with a valid reply and the text it came from   *)

PollTexts == {Str("worse"), Str("much better"), Str("call 911")}

\* the action the priority of the claim gives for a reply and a verdict
PriorityAction(pollResponse, analysis) ==
  IF analysis # Null /\ analysis.emergencyAlert THEN "emergency"
  ELSE IF (analysis # Null /\ analysis.escalate) \/ pollResponse = Str("worse_condition")
    THEN "escalate"
  ELSE IF pollResponse = Str("much_better") THEN "reduce"
  ELSE IF pollResponse = Str("emergency_help") THEN "emergency"
  ELSE "continue"

\* the job store after exactly the one action
AfterAction(q, p, action, analysis, t) ==
  CASE action \in {"emergency", "reduce"} -> cancelHealthCheckups(q, p, "symptom")
    [] action = "escalate" ->
         updateMonitoringFrequency(q, p, escalationLevelOf(analysis), "symptom", t)
    [] OTHER -> q

\* a reply that handlePollResponse answers without a verdict of the classifier
EmergencyReply(pollResponse, text) ==
  pollResponse = Str("emergency_help") \/ includes(toLowerCase(text), "911")

\* C38 as stated: every valid reply, whatever the classifier did, has exactly
\* one monitoring action executed, the one the priority gives
C38_OneActionAlways ==
  \A p \in Phones, reply \in validResponses, text \in PollTexts, analysis \in AllAnalyses :
    LET r == handlePollResponse(healthCronQueue, p, TRUE, Str(reply), text, analysis, now)
    IN /\ ~r.threw
       /\ r.action = PriorityAction(Str(reply), analysis)

\* C38: a valid reply with a verdict of the classifier, or one that is an
\* emergency (emergency_help, or 911 in its text), has exactly one monitoring
\* action executed, the one the priority gives for (reply, verdict); any other
\* valid reply without a verdict makes handlePollResponse throw before an
\* action, the job store unchanged.  The job store that results is a function
\* of the reply, the verdict and the job store before, up to the time stamps.
C38_OneActionWithVerdict ==
  \A p \in Phones, reply \in validResponses, text \in PollTexts, analysis \in AllAnalyses :
    LET r == handlePollResponse(healthCronQueue, p, TRUE, Str(reply), text, analysis, now)
        action == PriorityAction(Str(reply), analysis)
    IN IF analysis # Null \/ EmergencyReply(Str(reply), text)
         THEN /\ ~r.threw
              /\ r.action = action
              /\ r.queue = AfterAction(healthCronQueue, p, action, analysis, now)
              /\ \A d \in RetryDelays, other \in PollTexts :
                   (analysis # Null \/ EmergencyReply(Str(reply), other)) =>
                     Timeless(handlePollResponse(healthCronQueue, p, TRUE, Str(reply),
                                                 other, analysis, now + d).queue)
                       = Timeless(r.queue)
         ELSE r.threw /\ r.action = "none" /\ r.queue = healthCronQueue

\* a Symptom chain is pending; a "worse" reply with a verdict escalates it,
\* and the same reply without a verdict throws
C38_Witness ==
  \E p \in Phones :
    /\ JobsOf(healthCronQueue, p, "symptom") # {}
    /\ LET verdict == [escalationLevel |-> Str("urgent"), emergencyAlert |-> FALSE,
                       escalate |-> FALSE]
           r == handlePollResponse(healthCronQueue, p, TRUE, Str("worse_condition"),
                                   Str("worse"), verdict, now)
           failed == handlePollResponse(healthCronQueue, p, TRUE, Str("worse_condition"),
                                        Str("worse"), Null, now)
       IN /\ r.action = "escalate"
          /\ r.queue # healthCronQueue
          /\ failed.threw

====
